---- MODULE Spec2Model ----
(***************************************************************************)
(* The activity summarization pipeline of the Focusd productivity tracker: *)
(* the Event Ingestor (services/event-ingestion.ts), the Classifier        *)
(* (services/app-tracker.ts) and the Summarizer (services/summarizer.ts).  *)
(*                                                                         *)
(* Time is the wall clock in seconds (Math.floor(Date.now() / 1000)),      *)
(* modelled by the variable now.  Timers fire whenever they are armed; the *)
(* interval lengths are abstracted away.  A completion-API call suspends   *)
(* its caller: the caller is kept in tasks until the call returns.         *)
(***************************************************************************)
EXTENDS Integers, Sequences, FiniteSets, TLC

\* ------------------------------------------------------------------ bounds
MaxEvents == 3          \* RawEvents persisted in one behaviour
MaxTime == 3            \* last value of the clock
MaxLiveTimers == 2      \* live setInterval timers of one kind
MaxTasks == 1           \* summary generations suspended at a completion-API call
MaxOverlap == 2         \* the same, where overlapping generations are followed
MaxSummaries == 2       \* MicroSummary rows, and SessionSummary rows
MaxCallsPerKey == 2     \* generateDeepDive calls with one cache key
MaxFields == 4          \* fields of a structured scene text, words of a free one
MaxTexts == 2           \* scene texts of one inferAction call
MaxInRange == 53        \* RawEvents in the range of a deep dive

\* ------------------------------------------------------------- vocabulary
None == "none"          \* null / undefined
NoApp == ""             \* undefined or empty appName (both falsy in the code)
NoText == ""            \* undefined or empty text
Sessions == {"s1", "s2"}

\* Scene texts the capture feed delivers in this model.
TextVSCode == "VS Code | coding | main.ts"
TextChrome == "Chrome | browsing | docs"
TextGithub == "github.com | browsing | repo"
TextNoApp == " | idle | "
TextBlank == "  "
TextNumber == "<42>"   \* stands for a field that holds the number 42, not a string

VARIABLES
  now,                  \* Math.floor(Date.now() / 1000)
  \* Event Ingestor (event-ingestion.ts)
  buffer, flushTimer, liveFlushTimers, ingestSessionId, totalIngested, totalFlushed,
  \* persistent store
  rawEvents, segments, microSummaries, sessionSummaries, dailySummaries, deepDiveCache,
  \* Summarizer (summarizer.ts)
  llm, microTimer, sessionTimer, liveSummaryTimers, activeSessionId, sessionStartTime,
  lastMicroTime, lastSessionSummaryTime,
  tasks,                \* the async functions suspended at a completion-API call
  stopPc,               \* where stopPeriodicSummaries is suspended, "idle" when it is not running
  onDemandPc,           \* where generateOnDemandSummary is suspended
  \* history
  lastFlush,            \* the buffer the latest flush took, and its first segment id
  lastIngest,           \* how the latest ingestEvent call ended, and the session it saw
  lastStop,             \* the latest stopPeriodicSummaries call: what it attempted
  lastOnDemand,         \* the latest generateOnDemandSummary call: what it saw and returned
  lastDeepDive,         \* per cache key: the results returned and the completion calls issued
  completionFailed,     \* some completion call threw or returned bad JSON
  scene,                \* the text of the latest parseSceneIndex call, field by field
  parsed,               \* what that call returned
  actionTexts,          \* the scene texts of the latest inferAction call, word by word
  inferred,             \* what that call returned
  promptEvents,         \* the RawEvents the latest deep-dive prompt was built from
  prompt                \* that prompt: event_count, the listed events, the overflow note

ingestVars == <<buffer, flushTimer, liveFlushTimers, ingestSessionId, totalIngested,
                totalFlushed>>
summaryStore == <<microSummaries, sessionSummaries, dailySummaries, deepDiveCache>>
summarizerVars == <<llm, microTimer, sessionTimer, liveSummaryTimers, activeSessionId,
                    sessionStartTime, lastMicroTime, lastSessionSummaryTime, tasks, stopPc,
                    onDemandPc, lastStop, lastOnDemand, lastDeepDive, completionFailed>>
classifierVars == <<scene, parsed, actionTexts, inferred>>
promptVars == <<promptEvents, prompt>>
vars == <<now, classifierVars, promptVars, ingestVars, rawEvents, segments, summaryStore, summarizerVars,
          lastFlush, lastIngest>>

\* ------------------------------------------------------------- Classifier

\* text.trim() is empty
IsBlank(text) == text \in {NoText, TextBlank}

NoMatch == [name |-> "", category |-> "other"]      \* matchApp returns null
NoPipe == [rawApp |-> "", details |-> "", joined |-> "", isPipe |-> FALSE]

\* matchApp over the texts of the model: the first rule of APP_RULES whose
\* pattern occurs in the string.
MatchApp(text) ==
  CASE text \in {"VS Code main.ts", TextVSCode} -> [name |-> "VS Code", category |-> "development"]
    [] text \in {"Chrome docs", TextChrome} -> [name |-> "Chrome", category |-> "browsing"]
    [] text \in {"Slack ", "Slack"} -> [name |-> "Slack", category |-> "communication"]
    [] OTHER -> NoMatch

\* The pipe format "[APP] | [ACTION] | [DETAILS]" of a text: rawApp and details.
PipeParts(text) ==
  CASE text = TextVSCode -> [rawApp |-> "VS Code", details |-> "main.ts", joined |-> "VS Code main.ts", isPipe |-> TRUE]
    [] text = TextChrome -> [rawApp |-> "Chrome", details |-> "docs", joined |-> "Chrome docs", isPipe |-> TRUE]
    [] text = TextGithub -> [rawApp |-> "github.com", details |-> "repo", joined |-> "github.com repo", isPipe |-> TRUE]
    [] text = TextNoApp -> [rawApp |-> "", details |-> "", joined |-> " ", isPipe |-> TRUE]
    [] OTHER -> NoPipe

parseSceneIndex(text) ==
  IF text = NoText THEN [appName |-> "Unknown", category |-> "other"]
  ELSE IF PipeParts(text).isPipe
  THEN LET p == PipeParts(text)
           matched == MatchApp(p.joined)
       IN [appName |-> IF matched # NoMatch THEN matched.name ELSE p.rawApp,
           category |-> IF matched # NoMatch THEN matched.category ELSE "other"]
  ELSE LET matched == MatchApp(text)
       IN [appName |-> IF matched # NoMatch THEN matched.name ELSE "Unknown",
           category |-> IF matched # NoMatch THEN matched.category ELSE "other"]

categorizeAlert(label, eventName) ==
  LET matched == MatchApp(label)
  IN IF matched # NoMatch
     THEN [appName |-> matched.name, category |-> matched.category]
     ELSE [appName |-> IF label # NoText THEN label ELSE "Unknown", category |-> "other"]

\* ---- the classifier on texts taken apart
\* A scene text is given by its shape and its fields: "a | b | c" (pipe),
\* "a - b - c" (dash), or the words of a free text.  A field is one word.

\* Two rules of APP_RULES in table order, each with a word its pattern
\* matches, and a word no pattern matches.
APP_RULES ==
  << [keyword |-> "chrome", name |-> "Chrome", category |-> "browsing"],
     [keyword |-> "slack", name |-> "Slack", category |-> "communication"] >>

Words == {"finder", "chrome", "slack"}

FieldLists(least) == UNION {[1..n -> Words] : n \in least..MaxFields}

SceneTexts ==
  {[shape |-> "pipe", fields |-> f] : f \in FieldLists(2)}
  \cup {[shape |-> "dash", fields |-> f] : f \in FieldLists(2)}
  \cup {[shape |-> "free", fields |-> f] : f \in FieldLists(1)}

EmptyScene == [shape |-> "free", fields |-> <<>>]
NotParsed == [appName |-> <<>>, category |-> None]

\* The rules whose pattern occurs in the words.
Matching(words) ==
  {k \in 1..Len(APP_RULES) : \E i \in 1..Len(words) : words[i] = APP_RULES[k].keyword}

matchAppLastRule(words) ==
  IF Matching(words) = {} THEN 0
  ELSE CHOOSE k \in Matching(words) : \A j \in Matching(words) : j <= k

\* matchApp (lines 175-184): the index of the first rule that matches, 0 for null
matchApp(words) ==
  IF Matching(words) = {} THEN 0
  ELSE CHOOSE k \in Matching(words) : \A j \in Matching(words) : k <= j

\* extractFirstPhrase (lines 164-173): the first three words of the text
extractFirstPhrase(words) == SubSeq(words, 1, IF Len(words) < 3 THEN Len(words) ELSE 3)

\* What parseSceneIndex passes to matchApp: rawApp and details of the
\* pipe match (groups 1 and 3; group 3 ends at the next '|'), rawApp and
\* details of the dash match (group 3 runs to the end of the text), or the
\* whole free text.
ScannedWords(text) ==
  CASE text.shape = "pipe" ->
         <<text.fields[1]>> \o (IF Len(text.fields) >= 3 THEN <<text.fields[3]>> ELSE <<>>)
    [] text.shape = "dash" ->
         <<text.fields[1]>> \o SubSeq(text.fields, 3, Len(text.fields))
    [] OTHER -> text.fields

\* parseSceneIndex (lines 79-162); appName is given word by word.
parseScene(text) ==
  IF text = EmptyScene THEN [appName |-> <<"Unknown">>, category |-> "other"]
  ELSE LET matched == matchApp(ScannedWords(text))
       IN IF matched # 0
          THEN [appName |-> <<APP_RULES[matched].name>>,
                category |-> APP_RULES[matched].category]
          ELSE [appName |-> IF text.shape = "free" THEN extractFirstPhrase(text.fields)
                            ELSE <<text.fields[1]>>,
                category |-> "other"]

\* parseSceneIndex is called with the text.
Classify(text) ==
  /\ scene' = text
  /\ parsed' = parseScene(text)
  /\ UNCHANGED <<now, actionTexts, inferred, promptVars, ingestVars, rawEvents, segments,
                 summaryStore, summarizerVars, lastFlush, lastIngest>>

\* ---- inferAction, word by word (lines 198-213)

\* The patterns of inferAction in test order: the words of this model that
\* contain one of a pattern's one-word alternatives ('replying' contains
\* 'reply'), and the word pairs that match a two-word alternative (a\s*b).
ActionRules ==
  <<[tag |-> "coding", words |-> {"coding", "programming", "debugging"},
     pairs |-> {<<"editing", "code">>, <<"writing", "code">>}],
    [tag |-> "browsing", words |-> {"browsing", "searching", "navigating", "web"}, pairs |-> {}],
    [tag |-> "chatting", words |-> {"chatting", "messaging", "replying", "conversation"},
     pairs |-> {}],
    [tag |-> "reading", words |-> {"reading", "reviewing"}, pairs |-> {<<"viewing", "doc">>}],
    [tag |-> "meeting", words |-> {"meeting", "call", "conference"},
     pairs |-> {<<"video", "call">>}],
    [tag |-> "writing", words |-> {"writing", "composing", "drafting"},
     pairs |-> {<<"typing", "doc">>}],
    [tag |-> "designing", words |-> {"designing", "prototyping", "wireframing"}, pairs |-> {}],
    [tag |-> "watching", words |-> {"watching", "streaming", "playing"}, pairs |-> {}],
    [tag |-> "emailing", words |-> {"email", "inbox", "reply", "replying"}, pairs |-> {}]>>

NotInferred == "not called"

\* sceneTexts.join(' '): the words of all texts in order.
RECURSIVE Joined(_)
Joined(sceneTexts) ==
  IF sceneTexts = <<>> THEN <<>> ELSE Head(sceneTexts) \o Joined(Tail(sceneTexts))

\* rule.pattern.test(combined)
ActionRuleMatches(rule, combined) ==
  \/ \E i \in 1..Len(combined) : combined[i] \in rule.words
  \/ \E i \in 1..(Len(combined) - 1) : <<combined[i], combined[i + 1]>> \in rule.pairs

inferActionLastTag(sceneTexts) ==
  IF Len(sceneTexts) = 0 THEN "unknown"
  ELSE LET combined == Joined(sceneTexts)
           hits == {k \in 1..Len(ActionRules) : ActionRuleMatches(ActionRules[k], combined)}
       IN IF hits = {} THEN "working"
          ELSE ActionRules[CHOOSE k \in hits : \A j \in hits : k >= j].tag

inferActionByWords(sceneTexts) ==
  IF Len(sceneTexts) = 0 THEN "unknown"
  ELSE LET combined == Joined(sceneTexts)
           hits == {k \in 1..Len(ActionRules) : ActionRuleMatches(ActionRules[k], combined)}
       IN IF hits = {} THEN "working"
          ELSE ActionRules[CHOOSE k \in hits : \A j \in hits : k <= j].tag

\* A call of inferAction: without a scene text, or with one text more than
\* the call before.
InferAction(sceneTexts) ==
  /\ actionTexts' = sceneTexts
  /\ inferred' = inferActionByWords(sceneTexts)
  /\ UNCHANGED <<now, scene, parsed, promptVars, ingestVars, rawEvents, segments,
                 summaryStore, summarizerVars, lastFlush, lastIngest>>

\* The action keywords occurring in a scene text.
ActionTagsIn(text) ==
  CASE text = TextVSCode -> {"coding"}
    [] text \in {TextChrome, TextGithub} -> {"browsing"}
    [] OTHER -> {}

ActionPriority ==
  <<"coding", "browsing", "chatting", "reading", "meeting", "writing", "designing",
    "watching", "emailing">>

inferAction(sceneTexts) ==
  IF Len(sceneTexts) = 0 THEN "unknown"
  ELSE LET tags == UNION {ActionTagsIn(sceneTexts[i]) : i \in 1..Len(sceneTexts)}
           hits == {k \in 1..Len(ActionPriority) : ActionPriority[k] \in tags}
       IN IF hits = {} THEN "working"
          ELSE ActionPriority[CHOOSE k \in hits : \A j \in hits : k <= j]

\* None of the model's scene texts holds an IDE title bar or a source path.
inferProject(sceneTexts) == None

\* ---------------------------------------------------------- Event Ingestor

\* msg.channel || msg.type || msg.event_type
ChannelOf(msg) ==
  IF msg.channel # NoText THEN msg.channel
  ELSE IF msg.type # NoText THEN msg.type ELSE msg.event_type

\* a || b on strings
Or(a, b) == IF a # NoText THEN a ELSE b

Message(channel, type, text, dataText, label, summary) ==
  [channel |-> channel, type |-> type, event_type |-> NoText, text |-> text,
   dataText |-> dataText, label |-> label, summary |-> summary]

NoEvent == [channel |-> None, appName |-> NoApp, appCategory |-> None, summaryText |-> NoText]

KnownChannels == {"scene_index", "visual_index", "transcript", "spoken_index", "alert"}

EventOfKeepingBlank(msg) ==
  LET channel == ChannelOf(msg) IN
  IF channel \in {"scene_index", "visual_index"}
  THEN [channel |-> channel, appName |-> parseSceneIndex(Or(msg.dataText, msg.text)).appName,
        appCategory |-> parseSceneIndex(Or(msg.dataText, msg.text)).category,
        summaryText |-> Or(msg.dataText, msg.text)]
  ELSE IF channel \in {"transcript", "spoken_index"}
  THEN [channel |-> channel, appName |-> NoApp, appCategory |-> None,
        summaryText |-> Or(msg.text, Or(msg.summary, msg.dataText))]
  ELSE IF channel = "alert"
  THEN [channel |-> channel, appName |-> categorizeAlert(msg.label, NoText).appName,
        appCategory |-> categorizeAlert(msg.label, NoText).category,
        summaryText |-> msg.label]
  ELSE NoEvent

EventOfDroppingSilentSpeech(msg) ==
  LET channel == ChannelOf(msg) IN
  IF channel \in {"scene_index", "visual_index", "transcript", "spoken_index"}
  THEN IF IsBlank(Or(msg.dataText, Or(msg.text, msg.summary))) THEN NoEvent
       ELSE [channel |-> channel,
             appName |-> IF channel = "transcript" \/ channel = "spoken_index" THEN NoApp
                         ELSE parseSceneIndex(Or(msg.dataText, msg.text)).appName,
             appCategory |-> IF channel = "transcript" \/ channel = "spoken_index" THEN None
                             ELSE parseSceneIndex(Or(msg.dataText, msg.text)).category,
             summaryText |-> Or(msg.dataText, Or(msg.text, msg.summary))]
  ELSE IF channel = "alert"
  THEN [channel |-> channel, appName |-> categorizeAlert(msg.label, NoText).appName,
        appCategory |-> categorizeAlert(msg.label, NoText).category,
        summaryText |-> msg.label]
  ELSE NoEvent

\* The event ingestEvent builds from an accepted message, NoEvent for a
\* message it discards (lines 52-103).
EventOf(msg) ==
  LET channel == ChannelOf(msg) IN
  IF channel = NoText THEN NoEvent
  ELSE IF channel \in {"scene_index", "visual_index"}
  THEN LET text == Or(msg.dataText, msg.text)
       IN IF IsBlank(text) THEN NoEvent
          ELSE [channel |-> channel, appName |-> parseSceneIndex(text).appName,
                appCategory |-> parseSceneIndex(text).category, summaryText |-> text]
  ELSE IF channel = "transcript"
  THEN LET text == Or(msg.text, msg.dataText)
       IN IF IsBlank(text) THEN NoEvent
          ELSE [channel |-> channel, appName |-> NoApp, appCategory |-> None,
                summaryText |-> text]
  ELSE IF channel = "spoken_index"
  THEN [channel |-> channel, appName |-> NoApp, appCategory |-> None,
        summaryText |-> Or(msg.summary, msg.dataText)]
  ELSE IF channel = "alert"
  THEN [channel |-> channel, appName |-> categorizeAlert(msg.label, NoText).appName,
        appCategory |-> categorizeAlert(msg.label, NoText).category,
        summaryText |-> msg.label]
  ELSE NoEvent

startIngestion(sessionId) ==
  /\ liveFlushTimers < MaxLiveTimers
  /\ ingestSessionId' = sessionId
  /\ buffer' = <<>>
  /\ totalIngested' = 0
  /\ totalFlushed' = 0
  /\ flushTimer' = TRUE
  /\ liveFlushTimers' = liveFlushTimers + 1
  /\ UNCHANGED <<now, classifierVars, promptVars, rawEvents, segments, summaryStore, summarizerVars, lastFlush, lastIngest>>

IsString(value) == value # TextNumber

\* Where ingestEvent throws a TypeError for the message: at text.trim()
\* (lines 67, 79) when the text is not a string, at summaryText?.slice(...)
\* (line 122, reached for the first 20 events of a session and so for every
\* event of the model) when the summary text is not a string; None when it
\* does not throw.
ThrowsAt(msg) ==
  LET channel == ChannelOf(msg) IN
  IF channel \in {"scene_index", "visual_index"}
  THEN IF IsString(Or(msg.dataText, msg.text)) THEN None ELSE "trim"
  ELSE IF channel = "transcript"
  THEN IF IsString(Or(msg.text, msg.dataText)) THEN None ELSE "trim"
  ELSE IF channel = "spoken_index"
  THEN IF IsString(Or(msg.summary, msg.dataText)) THEN None ELSE "slice"
  ELSE IF channel = "alert"
  THEN IF IsString(msg.label) THEN None ELSE "slice"
  ELSE None

\* How ingestEvent ends for the message when sessionId is the active session.
Outcome(sessionId, msg) ==
  IF sessionId = None THEN "discarded"
  ELSE IF ThrowsAt(msg) = "trim" THEN "threw"
  ELSE IF EventOf(msg) = NoEvent THEN "discarded"
  ELSE IF ThrowsAt(msg) = "slice" THEN "threw"
  ELSE "accepted"

ingestEvent(msg) ==
  LET outcome == Outcome(ingestSessionId, msg)
      event == [id |-> Len(rawEvents) + 1, sessionId |-> ingestSessionId,
                timestamp |-> now] @@ EventOf(msg)
  IN /\ Len(rawEvents) < MaxEvents
     /\ totalIngested < MaxEvents
     /\ lastIngest' = [outcome |-> outcome, sessionId |-> ingestSessionId]
     /\ totalIngested' = IF outcome = "accepted" \/ (outcome = "threw" /\ ThrowsAt(msg) = "slice")
                         THEN totalIngested + 1 ELSE totalIngested
     /\ rawEvents' = IF outcome = "accepted" THEN Append(rawEvents, event) ELSE rawEvents
     /\ buffer' = IF outcome = "accepted" THEN Append(buffer, event) ELSE buffer
     /\ UNCHANGED <<now, classifierVars, promptVars, flushTimer, liveFlushTimers, ingestSessionId, totalFlushed, segments,
                    summaryStore, summarizerVars, lastFlush>>

HasAppInfo(event) == event.channel \in {"scene_index", "visual_index", "alert"}

NoGroup == [appName |-> NoApp, appCategory |-> None, events |-> <<>>]

\* One iteration of groupByApp's loop: acc holds groups and current (NoGroup
\* for null).
GroupStepDropping(acc, event) ==
  IF HasAppInfo(event) /\ event.appName # NoApp
     /\ (acc.current = NoGroup \/ event.appName # acc.current.appName)
  THEN [groups |-> IF acc.current # NoGroup THEN Append(acc.groups, acc.current)
                   ELSE acc.groups,
        current |-> [appName |-> event.appName, appCategory |-> event.appCategory,
                     events |-> <<event>>]]
  ELSE IF acc.current # NoGroup
  THEN acc
  ELSE [acc EXCEPT !.current = [appName |-> event.appName,
                                appCategory |-> event.appCategory,
                                events |-> <<event>>]]

GroupStepByChannel(acc, event) ==
  IF HasAppInfo(event)
     /\ (acc.current = NoGroup \/ event.appName # acc.current.appName)
  THEN [groups |-> IF acc.current # NoGroup THEN Append(acc.groups, acc.current)
                   ELSE acc.groups,
        current |-> [appName |-> event.appName, appCategory |-> event.appCategory,
                     events |-> <<event>>]]
  ELSE IF acc.current # NoGroup
  THEN [acc EXCEPT !.current.events = Append(@, event)]
  ELSE [acc EXCEPT !.current = [appName |-> event.appName,
                                appCategory |-> event.appCategory,
                                events |-> <<event>>]]

GroupStep(acc, event) ==
  IF HasAppInfo(event) /\ event.appName # NoApp
     /\ (acc.current = NoGroup \/ event.appName # acc.current.appName)
  THEN [groups |-> IF acc.current # NoGroup THEN Append(acc.groups, acc.current)
                   ELSE acc.groups,
        current |-> [appName |-> event.appName, appCategory |-> event.appCategory,
                     events |-> <<event>>]]
  ELSE IF acc.current # NoGroup
  THEN [acc EXCEPT !.current.events = Append(@, event)]
  ELSE [acc EXCEPT !.current = [appName |-> event.appName,
                                appCategory |-> event.appCategory,
                                events |-> <<event>>]]

RECURSIVE GroupLoop(_, _, _)
GroupLoop(events, i, acc) ==
  IF i > Len(events) THEN acc ELSE GroupLoop(events, i + 1, GroupStep(acc, events[i]))

groupByApp(events) ==
  LET acc == GroupLoop(events, 1, [groups |-> <<>>, current |-> NoGroup])
  IN IF acc.current # NoGroup THEN Append(acc.groups, acc.current) ELSE acc.groups

\* e.summaryText of the events of a group on the given channels
TextsOf(events, channels) ==
  LET keep == SelectSeq(events, LAMBDA e : e.channel \in channels /\ e.summaryText # NoText)
  IN [i \in 1..Len(keep) |-> keep[i].summaryText]

SegmentOfBackwards(group, sessionId, id) ==
  LET sceneTexts == TextsOf(group.events, {"scene_index", "visual_index"})
  IN [id |-> id,
      sessionId |-> sessionId,
      startTime |-> group.events[Len(group.events)].timestamp,
      endTime |-> group.events[1].timestamp,
      primaryApp |-> group.appName,
      appCategory |-> group.appCategory,
      action |-> inferAction(sceneTexts),
      project |-> inferProject(sceneTexts),
      eventCount |-> Len(group.events),
      eventIds |-> [i \in 1..Len(group.events) |-> group.events[i].id]]

\* The ActivitySegment flushToSegments builds for one group (lines 148-171);
\* eventIds records which events the segment counts.
SegmentOf(group, sessionId, id) ==
  LET sceneTexts == TextsOf(group.events, {"scene_index", "visual_index"})
  IN [id |-> id,
      sessionId |-> sessionId,
      startTime |-> group.events[1].timestamp,
      endTime |-> group.events[Len(group.events)].timestamp,
      primaryApp |-> group.appName,
      appCategory |-> group.appCategory,
      action |-> inferAction(sceneTexts),
      project |-> inferProject(sceneTexts),
      eventCount |-> Len(group.events),
      eventIds |-> [i \in 1..Len(group.events) |-> group.events[i].id]]

\* The segments one flush of the given events inserts, in creation order.
FlushedSegments(events, sessionId, firstId) ==
  LET groups == SelectSeq(groupByApp(events), LAMBDA g : Len(g.events) # 0)
  IN [k \in 1..Len(groups) |-> SegmentOf(groups[k], sessionId, firstId + k - 1)]

\* The effect of flushToSegments on buffer, segments and totalFlushed.
Flush(by) ==
  IF ingestSessionId = None \/ Len(buffer) = 0
  THEN UNCHANGED <<buffer, segments, totalFlushed, lastFlush>>
  ELSE LET created == FlushedSegments(buffer, ingestSessionId, Len(segments) + 1)
       IN /\ buffer' = <<>>
          /\ segments' = segments \o created
          /\ totalFlushed' = totalFlushed + Len(created)
          /\ lastFlush' = [events |-> buffer, firstId |-> Len(segments) + 1, by |-> by]

flushToSegmentsWhenIdle ==
  /\ liveFlushTimers > 0
  /\ tasks = <<>>
  /\ Flush("timer")
  /\ UNCHANGED <<now, classifierVars, promptVars, flushTimer, liveFlushTimers, ingestSessionId, totalIngested,
                 rawEvents, summaryStore, summarizerVars, lastIngest>>

\* The flush timer armed by startIngestion fires.
flushToSegments ==
  /\ liveFlushTimers > 0
  /\ Flush("timer")
  /\ UNCHANGED <<now, classifierVars, promptVars, flushTimer, liveFlushTimers, ingestSessionId, totalIngested,
                 rawEvents, summaryStore, summarizerVars, lastIngest>>

stopIngestionWithoutFlush ==
  /\ flushTimer' = FALSE
  /\ liveFlushTimers' = IF flushTimer THEN liveFlushTimers - 1 ELSE liveFlushTimers
  /\ ingestSessionId' = None
  /\ UNCHANGED <<now, classifierVars, promptVars, buffer, segments, totalFlushed, lastFlush, totalIngested, rawEvents,
                 summaryStore, summarizerVars, lastIngest>>

stopIngestion ==
  /\ flushTimer' = FALSE
  /\ liveFlushTimers' = IF flushTimer THEN liveFlushTimers - 1 ELSE liveFlushTimers
  /\ Flush("stop")
  /\ ingestSessionId' = None
  /\ UNCHANGED <<now, classifierVars, promptVars, totalIngested, rawEvents, summaryStore, summarizerVars, lastIngest>>

\* The clock advances by one second.
Tick ==
  /\ now < MaxTime
  /\ now' = now + 1
  /\ UNCHANGED <<classifierVars, promptVars, ingestVars, rawEvents, segments, summaryStore, summarizerVars,
                 lastFlush, lastIngest>>

\* ------------------------------------------------------- persistent store
\* The queries of services/database.ts the Summarizer uses.

Today == "D1"           \* db.todayDateString(): the behaviours stay within one day
DayStart == 0           \* local midnight of Today, in clock seconds
SecondsPerDay == 86400
OnDemandSlack == 60

Ids(rows) == [i \in 1..Len(rows) |-> rows[i].id]
Rows(table, ids) == [i \in 1..Len(ids) |-> table[ids[i]]]
Last(seq) == seq[Len(seq)]

getUnprocessedSegmentsForMicro(table, sessionId, since) ==
  SelectSeq(table, LAMBDA s : s.sessionId = sessionId /\ s.startTime > since)

getMicroSummaries(table, start, end) ==
  SelectSeq(table, LAMBDA m : m.startTime >= start /\ m.endTime <= end)

getActivitySegments(table, start, end) ==
  SelectSeq(table, LAMBDA s : s.startTime >= start /\ s.endTime <= end)

getSessionSummaries(table, date) == SelectSeq(table, LAMBDA s : s.date = date)

updateSegmentProjectsAndApps(table, ids, project) ==
  [i \in 1..Len(table) |->
     IF \E k \in 1..Len(ids) : ids[k] = table[i].id
     THEN [table[i] EXCEPT !.project = project, !.primaryApp = NoApp] ELSE table[i]]

updateSegmentProjects(table, ids, project) ==
  [i \in 1..Len(table) |->
     IF \E k \in 1..Len(ids) : ids[k] = table[i].id
     THEN [table[i] EXCEPT !.project = project] ELSE table[i]]

upsertDailySummary(table, daily) == {d \in table : d.date # daily.date} \cup {daily}

\* -------------------------------------------------------------- Summarizer

\* What the completion API returns: it throws, returns text that is not
\* JSON, or returns a JSON object.  claimedSecs stands for the numbers the
\* model may put into its output.
Response(kind, summary, project, label) ==
  [kind |-> kind, summary |-> summary, project |-> project, label |-> label,
   claimedSecs |-> 99]

Responses ==
  { Response("throw", NoText, None, None),
    Response("badjson", "not json", None, None),
    Response("ok", NoText, None, None),
    Response("ok", "wrote code", "focusd", "productive") }

\* The state the Summarizer's functions read and write.
Current ==
  [now |-> now, segments |-> segments, microSummaries |-> microSummaries,
   sessionSummaries |-> sessionSummaries, dailySummaries |-> dailySummaries,
   llm |-> llm, activeSessionId |-> activeSessionId, lastMicroTime |-> lastMicroTime,
   lastSessionSummaryTime |-> lastSessionSummaryTime, tasks |-> tasks, stopPc |-> stopPc,
   onDemandPc |-> onDemandPc, lastStop |-> lastStop, lastOnDemand |-> lastOnDemand]

\* await llm.chat.completions.create(...): the caller is suspended.
Await(S, kind, caller, source, ids) ==
  [S |-> [S EXCEPT !.tasks = Append(@, [kind |-> kind, caller |-> caller,
                                        source |-> source, ids |-> ids, now |-> S.now,
                                        date |-> Today, key |-> <<>>])],
   pending |-> TRUE]

\* The function returned null without suspending.
ReturnNull(S) == [S |-> S, pending |-> FALSE]

EmptyMap == [k \in {} |-> 0]
AddTo(map, key, secs) ==
  IF key \in DOMAIN map THEN [map EXCEPT ![key] = @ + secs] ELSE map @@ (key :> secs)

RECURSIVE SumOfMap(_)
SumOfMap(map) ==
  IF DOMAIN map = {} THEN 0
  ELSE LET k == CHOOSE k \in DOMAIN map : TRUE
       IN map[k] + SumOfMap([j \in DOMAIN map \ {k} |-> map[j]])

\* s.primaryApp || 'Unknown'
AppOrUnknown(segment) == IF segment.primaryApp # NoApp THEN segment.primaryApp ELSE "Unknown"

\* computedAppBreakdown (lines 223-227)
RECURSIVE AppBreakdownOverwriting(_, _, _)
AppBreakdownOverwriting(segs, i, map) ==
  IF i > Len(segs) THEN map
  ELSE AppBreakdownOverwriting(segs, i + 1,
         (AppOrUnknown(segs[i]) :> (segs[i].endTime - segs[i].startTime)) @@ map)

RECURSIVE AppBreakdown(_, _, _)
AppBreakdown(segs, i, map) ==
  IF i > Len(segs) THEN map
  ELSE AppBreakdown(segs, i + 1,
         AddTo(map, AppOrUnknown(segs[i]), segs[i].endTime - segs[i].startTime))

\* parsed.project, null unless a non-empty string other than 'null'
\* toLowerCase() and trim() on the project values of the model
Lower(text) == IF text = "NULL" THEN "null" ELSE text

Trim(text) ==
  CASE text = TextBlank -> NoText
    [] text = " focusd " -> "focusd"
    [] text = " null " -> "null"
    [] OTHER -> text

LlmProjectUntrimmed(project) ==
  IF project \in {None, NoText} \/ Lower(project) = "null" \/ Trim(project) = NoText
  THEN None ELSE project

LlmProject(project) ==
  IF project \in {None, NoText} \/ Lower(project) = "null" \/ Trim(project) = NoText
  THEN None ELSE Trim(project)

\* generateMicroSummary up to its completion call (lines 141-203)
generateMicroSummaryWithoutClient(S, caller) ==
  IF S.activeSessionId = None THEN ReturnNull(S)
  ELSE LET segs == getUnprocessedSegmentsForMicro(S.segments, S.activeSessionId,
                                                  S.lastMicroTime)
       IN IF Len(segs) = 0 THEN ReturnNull(S)
          ELSE Await(S, "micro", caller, "segments", Ids(segs))

generateMicroSummary(S, caller) ==
  IF ~S.llm \/ S.activeSessionId = None THEN ReturnNull(S)
  ELSE LET segs == getUnprocessedSegmentsForMicro(S.segments, S.activeSessionId,
                                                  S.lastMicroTime)
       IN IF Len(segs) = 0 THEN ReturnNull(S)
          ELSE Await(S, "micro", caller, "segments", Ids(segs))

\* generateMicroSummary from the return of its completion call (lines 213-270)
MicroSummaryReturnedAdvancing(S, task, response) ==
  IF response.kind # "ok" THEN [S EXCEPT !.lastMicroTime = task.now]
  ELSE LET segs == Rows(S.segments, task.ids)
           micro == [id |-> Len(S.microSummaries) + 1,
                     sessionId |-> S.activeSessionId,
                     startTime |-> segs[1].startTime,
                     endTime |-> Last(segs).endTime,
                     summary |-> response.summary,
                     appBreakdown |-> AppBreakdown(segs, 1, EmptyMap),
                     productivityLabel |-> response.label,
                     project |-> LlmProject(response.project),
                     segmentIds |-> task.ids]
       IN [S EXCEPT !.microSummaries = Append(@, micro), !.lastMicroTime = task.now]

MicroSummaryReturnedFirstSpan(S, task, response) ==
  IF response.kind # "ok" THEN S
  ELSE LET segs == Rows(S.segments, task.ids)
           micro == [id |-> Len(S.microSummaries) + 1,
                     sessionId |-> S.activeSessionId,
                     startTime |-> segs[1].startTime,
                     endTime |-> segs[1].endTime,
                     summary |-> response.summary,
                     appBreakdown |-> AppBreakdown(segs, 1, EmptyMap),
                     productivityLabel |-> response.label,
                     project |-> LlmProject(response.project),
                     segmentIds |-> task.ids]
       IN [S EXCEPT !.microSummaries = Append(@, micro), !.lastMicroTime = task.now]

MicroSummaryReturned(S, task, response) ==
  IF response.kind # "ok" THEN S
  ELSE LET segs == Rows(S.segments, task.ids)
           llmProject == LlmProject(response.project)
           micro == [id |-> Len(S.microSummaries) + 1,
                     sessionId |-> S.activeSessionId,
                     startTime |-> segs[1].startTime,
                     endTime |-> Last(segs).endTime,
                     summary |-> IF response.summary # NoText THEN response.summary
                                 ELSE "No summary available",
                     appBreakdown |-> AppBreakdown(segs, 1, EmptyMap),
                     productivityLabel |-> IF response.label \notin {None, NoText} THEN response.label
                                           ELSE "neutral",
                     project |-> llmProject,
                     segmentIds |-> task.ids]
       IN [S EXCEPT !.segments = IF llmProject # None
                                 THEN updateSegmentProjects(@, task.ids, llmProject)
                                 ELSE @,
                    !.microSummaries = Append(@, micro),
                    !.lastMicroTime = task.now]

\* app.replace(/\.com$|\.org$|\.io$|\.dev$/i, '') on the app names of the model
NormalizedApp(app) == IF app = "github.com" THEN "github" ELSE app

\* computedAppStats (lines 347-355): every entry of every micro's breakdown
RECURSIVE AddEntries(_, _, _)
AddEntries(stats, breakdown, apps) ==
  IF apps = {} THEN stats
  ELSE LET app == CHOOSE a \in apps : TRUE
       IN AddEntries(AddTo(stats, NormalizedApp(app), breakdown[app]), breakdown,
                     apps \ {app})

RECURSIVE AppStatsFromSpans(_, _, _)
AppStatsFromSpans(micros, i, stats) ==
  IF i > Len(micros) THEN stats
  ELSE AppStatsFromSpans(micros, i + 1,
         AddEntries(stats,
                    [a \in DOMAIN micros[i].appBreakdown |->
                       micros[i].endTime - micros[i].startTime],
                    DOMAIN micros[i].appBreakdown))

RECURSIVE AppStats(_, _, _)
AppStats(micros, i, stats) ==
  IF i > Len(micros) THEN stats
  ELSE AppStats(micros, i + 1,
         AddEntries(stats, micros[i].appBreakdown, DOMAIN micros[i].appBreakdown))

\* computedProjects (lines 359-365)
RECURSIVE ProjectDurations(_, _, _)
ProjectDurations(segs, i, map) ==
  IF i > Len(segs) THEN map
  ELSE ProjectDurations(segs, i + 1,
         IF segs[i].project # None
         THEN AddTo(map, segs[i].project, segs[i].endTime - segs[i].startTime)
         ELSE map)

\* generateSessionSummary up to its completion call (lines 275-322)
generateSessionSummary(S, caller) ==
  IF ~S.llm \/ S.activeSessionId = None THEN ReturnNull(S)
  ELSE LET micros == getMicroSummaries(S.microSummaries, S.lastSessionSummaryTime, S.now)
       IN IF Len(micros) = 0 THEN ReturnNull(S)
          ELSE Await(S, "session", caller, "micros", Ids(micros))

\* generateSessionSummary from the return of its completion call (lines 332-394)
SessionSummaryReturned(S, task, response) ==
  IF response.kind # "ok" THEN S
  ELSE LET micros == Rows(S.microSummaries, task.ids)
           segmentsInRange == getActivitySegments(S.segments, micros[1].startTime,
                                                  Last(micros).endTime)
           session == [id |-> Len(S.sessionSummaries) + 1,
                       sessionId |-> S.activeSessionId,
                       date |-> Today,
                       startTime |-> micros[1].startTime,
                       endTime |-> Last(micros).endTime,
                       summary |-> IF response.summary # NoText THEN response.summary
                                   ELSE "No summary available",
                       projects |-> ProjectDurations(segmentsInRange, 1, EmptyMap),
                       appStats |-> AppStats(micros, 1, EmptyMap),
                       productivityLabel |-> IF response.label \notin {None, NoText} THEN response.label
                                             ELSE "neutral",
                       microIds |-> task.ids]
       IN [S EXCEPT !.sessionSummaries = Append(@, session),
                    !.lastSessionSummaryTime = task.now]

\* generateDailySummary up to its completion call (lines 399-472)
generateDailySummaryFromNothing(S, date, caller) ==
  IF ~S.llm THEN ReturnNull(S)
  ELSE LET sessions == getSessionSummaries(S.sessionSummaries, date)
           micros == IF Len(sessions) = 0
                     THEN getMicroSummaries(S.microSummaries, DayStart,
                                            DayStart + SecondsPerDay)
                     ELSE <<>>
       IN IF Len(sessions) > 0
          THEN Await(S, "daily", caller, "sessions", Ids(sessions))
          ELSE Await(S, "daily", caller, "micros", Ids(micros))

generateDailySummaryFromMicros(S, date, caller) ==
  IF ~S.llm THEN ReturnNull(S)
  ELSE LET sessions == getSessionSummaries(S.sessionSummaries, date)
           micros == getMicroSummaries(S.microSummaries, DayStart, DayStart + SecondsPerDay)
       IN IF Len(sessions) = 0 /\ Len(micros) = 0 THEN ReturnNull(S)
          ELSE IF Len(micros) > 0
          THEN Await(S, "daily", caller, "micros", Ids(micros))
          ELSE Await(S, "daily", caller, "sessions", Ids(sessions))

generateDailySummary(S, date, caller) ==
  IF ~S.llm THEN ReturnNull(S)
  ELSE LET sessions == getSessionSummaries(S.sessionSummaries, date)
           micros == IF Len(sessions) = 0
                     THEN getMicroSummaries(S.microSummaries, DayStart,
                                            DayStart + SecondsPerDay)
                     ELSE <<>>
       IN IF Len(sessions) = 0 /\ Len(micros) = 0 THEN ReturnNull(S)
          ELSE IF Len(sessions) > 0
          THEN Await(S, "daily", caller, "sessions", Ids(sessions))
          ELSE Await(S, "daily", caller, "micros", Ids(micros))

SecondsPerHour == 3600

\* One entry of parsed.sections as a drill-down section (lines 502-507); an
\* hour is <<>> when the field is missing and <<h>> when it holds h.
DrillDownSection(s) ==
  LET HourOr(hour, default) == IF hour = <<>> \/ hour = <<0>> THEN default ELSE hour[1]
  IN [endTime |-> DayStart + HourOr(s.end_hour, 24) * SecondsPerHour,
      startTime |-> DayStart + HourOr(s.start_hour, 0) * SecondsPerHour]

\* generateDailySummary from the return of its completion call (lines 482-529)
DailySummaryReturned(S, task, response) ==
  IF response.kind # "ok" THEN S
  ELSE LET daily == [date |-> task.date,
                     summary |-> IF response.summary # NoText THEN response.summary
                                 ELSE "No summary available",
                     drillDownSections |->
                       IF "sections" \in DOMAIN response
                       THEN [i \in 1..Len(response.sections) |->
                               DrillDownSection(response.sections[i])]
                       ELSE <<>>,
                     source |-> task.source,
                     inputIds |-> task.ids]
       IN [S EXCEPT !.dailySummaries = upsertDailySummary(@, daily)]

\* ---- stopPeriodicSummaries (lines 82-137), step by step

\* The step is attempted: logged in lastStop.
Attempt(S, step) == [S EXCEPT !.lastStop.attempts = Append(@, step)]

StopEnd(S) ==
  [S EXCEPT !.activeSessionId = None, !.stopPc = "idle", !.lastStop.finished = TRUE]

StopAtDaily(S) ==
  LET r == generateDailySummary(Attempt(S, "daily"), Today, "stop")
  IN IF r.pending THEN [r.S EXCEPT !.stopPc = "daily"] ELSE StopEnd(r.S)

StopAtSession(S) ==
  LET r == generateSessionSummary(Attempt(S, "session"), "stop")
  IN IF r.pending THEN [r.S EXCEPT !.stopPc = "session"] ELSE StopAtDaily(r.S)

StopSkippingAfterEmpty(S) ==
  LET r == generateMicroSummary(Attempt(S, "micro"), "stop")
  IN IF r.pending THEN [r.S EXCEPT !.stopPc = "micro"] ELSE StopEnd(r.S)

StopAtMicro(S) ==
  LET r == generateMicroSummary(Attempt(S, "micro"), "stop")
  IN IF r.pending THEN [r.S EXCEPT !.stopPc = "micro"] ELSE StopAtSession(r.S)

StopBody(S) ==
  IF S.activeSessionId # None /\ S.llm THEN StopAtMicro(S) ELSE StopEnd(S)

\* ---- generateOnDemandSummary (lines 614-687), step by step

OnDemandReturn(S, seen, result) ==
  [S EXCEPT !.onDemandPc = "idle",
            !.lastOnDemand.seen = seen,
            !.lastOnDemand.result = result,
            !.lastOnDemand.finished = TRUE]

OnDemandGatherSynthesizing(S) ==
  LET allMicros == getMicroSummaries(S.microSummaries, DayStart, S.now + OnDemandSlack)
  IN IF Len(allMicros) = 0 THEN OnDemandReturn(S, <<>>, "No activity recorded yet.")
     ELSE IF ~S.llm THEN OnDemandReturn(S, Ids(allMicros), Last(allMicros).summary)
     ELSE [Await(S, "overview", "ondemand", "micros", Ids(allMicros)).S
             EXCEPT !.onDemandPc = "overview",
                    !.lastOnDemand.seen = Ids(allMicros),
                    !.lastOnDemand.ownCalls = 1]

\* lines 623-662: after the forced micro flush
OnDemandGather(S) ==
  LET allMicros == getMicroSummaries(S.microSummaries, DayStart, S.now + OnDemandSlack)
  IN IF Len(allMicros) = 0 THEN OnDemandReturn(S, <<>>, "No activity recorded yet.")
     ELSE IF Len(allMicros) = 1 THEN OnDemandReturn(S, Ids(allMicros), allMicros[1].summary)
     ELSE IF ~S.llm THEN OnDemandReturn(S, Ids(allMicros), Last(allMicros).summary)
     ELSE [Await(S, "overview", "ondemand", "micros", Ids(allMicros)).S
             EXCEPT !.onDemandPc = "overview",
                    !.lastOnDemand.seen = Ids(allMicros),
                    !.lastOnDemand.ownCalls = 1]

OverviewReturnedPersisting(S, task, response) ==
  OnDemandReturn(SessionSummaryReturned(S, task, response), task.ids,
                 IF response.kind = "ok" /\ response.summary # NoText
                 THEN response.summary
                 ELSE S.microSummaries[Last(task.ids)].summary)

OverviewReturnedOldest(S, task, response) ==
  OnDemandReturn(S, task.ids,
                 IF response.kind = "ok" /\ response.summary # NoText
                 THEN response.summary
                 ELSE S.microSummaries[task.ids[1]].summary)

\* lines 675-686: the overview call returned
OverviewReturned(S, task, response) ==
  OnDemandReturn(S, task.ids,
                 IF response.kind = "ok" /\ response.summary # NoText
                 THEN response.summary
                 ELSE S.microSummaries[Last(task.ids)].summary)

OnDemandBody(S) ==
  LET r == generateMicroSummary(S, "ondemand")
  IN IF r.pending
     THEN [r.S EXCEPT !.onDemandPc = "flush", !.lastOnDemand.flushCalls = 1]
     ELSE OnDemandGather(r.S)

\* ---- how a suspended function goes on when its completion call returns
Returned(S, task, response) ==
  CASE task.kind = "micro" -> MicroSummaryReturned(S, task, response)
    [] task.kind = "session" -> SessionSummaryReturned(S, task, response)
    [] task.kind = "daily" -> DailySummaryReturned(S, task, response)
    [] OTHER -> S

\* The catch blocks of stopPeriodicSummaries never run (the generators catch
\* their own failures); failed logs the steps whose completion call failed.
StopStepReturned(S, task, response) ==
  IF response.kind # "ok"
  THEN [Returned(S, task, response) EXCEPT !.lastStop.failed = Append(@, task.kind)]
  ELSE Returned(S, task, response)

Resume(S, task, response) ==
  LET done == IF task.caller = "stop" THEN StopStepReturned(S, task, response)
              ELSE Returned(S, task, response)
  IN CASE task.caller = "stop" /\ task.kind = "micro" -> StopAtSession(done)
       [] task.caller = "stop" /\ task.kind = "session" -> StopAtDaily(done)
       [] task.caller = "stop" /\ task.kind = "daily" -> StopEnd(done)
       [] task.caller = "ondemand" /\ task.kind = "micro" -> OnDemandGather(done)
       [] task.caller = "ondemand" /\ task.kind = "overview" ->
            OverviewReturned(done, task, response)
       [] OTHER -> done

RemoveAt(seq, i) == SubSeq(seq, 1, i - 1) \o SubSeq(seq, i + 1, Len(seq))

\* ---- actions of the Summarizer

\* The new state is written back; a behaviour ends where the bounds are met.
Commit(S) ==
  /\ Len(S.tasks) <= MaxOverlap
  /\ Len(S.microSummaries) <= MaxSummaries
  /\ Len(S.sessionSummaries) <= MaxSummaries
  /\ segments' = S.segments
  /\ microSummaries' = S.microSummaries
  /\ sessionSummaries' = S.sessionSummaries
  /\ dailySummaries' = S.dailySummaries
  /\ llm' = S.llm
  /\ activeSessionId' = S.activeSessionId
  /\ lastMicroTime' = S.lastMicroTime
  /\ lastSessionSummaryTime' = S.lastSessionSummaryTime
  /\ tasks' = S.tasks
  /\ stopPc' = S.stopPc
  /\ onDemandPc' = S.onDemandPc
  /\ lastStop' = S.lastStop
  /\ lastOnDemand' = S.lastOnDemand

initSummarizer ==
  /\ llm' = TRUE
  /\ UNCHANGED <<now, classifierVars, promptVars, ingestVars, rawEvents, segments, summaryStore, microTimer,
                 sessionTimer, liveSummaryTimers, activeSessionId, sessionStartTime,
                 lastMicroTime, lastSessionSummaryTime, tasks, stopPc, onDemandPc, lastStop,
                 lastOnDemand, lastDeepDive, completionFailed, lastFlush, lastIngest>>

startPeriodicSummaries(sessionId) ==
  /\ liveSummaryTimers < MaxLiveTimers
  /\ activeSessionId' = sessionId
  /\ sessionStartTime' = now
  /\ lastMicroTime' = now
  /\ lastSessionSummaryTime' = now
  /\ microTimer' = TRUE
  /\ sessionTimer' = TRUE
  /\ liveSummaryTimers' = liveSummaryTimers + 1
  /\ UNCHANGED <<now, classifierVars, promptVars, ingestVars, rawEvents, segments, summaryStore, llm, tasks, stopPc,
                 onDemandPc, lastStop, lastOnDemand, lastDeepDive, completionFailed,
                 lastFlush, lastIngest>>

\* Only the Summarizer's own state and the store's summaries change.
SummarizerStep ==
  UNCHANGED <<now, classifierVars, promptVars, ingestVars, rawEvents, deepDiveCache, microTimer, sessionTimer,
              liveSummaryTimers, sessionStartTime, lastDeepDive, completionFailed,
              lastFlush, lastIngest>>

\* The micro-summary timer fires (lines 65-71).
MicroTimerFires ==
  /\ liveSummaryTimers > 0
  /\ Commit(generateMicroSummary(Current, "timer").S)
  /\ SummarizerStep

\* The session-summary timer fires (lines 73-79).
SessionTimerFires ==
  /\ liveSummaryTimers > 0
  /\ Commit(generateSessionSummary(Current, "timer").S)
  /\ SummarizerStep

stopPeriodicSummaries ==
  /\ stopPc = "idle"
  /\ Commit(StopBody([Current EXCEPT
       !.lastStop = [called |-> TRUE,
                     ready |-> activeSessionId # None /\ llm,
                     sessionId |-> activeSessionId,
                     segmentsBefore |-> Len(segments),
                     attempts |-> <<>>,
                     failed |-> <<>>,
                     finished |-> FALSE]]))
  /\ microTimer' = FALSE
  /\ sessionTimer' = FALSE
  /\ liveSummaryTimers' = IF microTimer THEN liveSummaryTimers - 1 ELSE liveSummaryTimers
  /\ UNCHANGED <<now, classifierVars, promptVars, ingestVars, rawEvents, deepDiveCache, sessionStartTime, lastDeepDive,
                 completionFailed, lastFlush, lastIngest>>

generateOnDemandSummary ==
  /\ onDemandPc = "idle"
  /\ Commit(OnDemandBody([Current EXCEPT
       !.lastOnDemand = [called |-> TRUE, seen |-> <<>>, result |-> None,
                         flushCalls |-> 0, ownCalls |-> 0, finished |-> FALSE]]))
  /\ SummarizerStep

\* The completion call of a suspended micro, session, daily or overview
\* generation returns.
CompletionReturns(i, response) ==
  /\ i \in 1..Len(tasks)
  /\ tasks[i].kind # "deepdive"
  /\ Commit(Resume([Current EXCEPT !.tasks = RemoveAt(@, i)], tasks[i], response))
  /\ completionFailed' = (completionFailed \/ response.kind # "ok")
  /\ UNCHANGED <<now, classifierVars, promptVars, ingestVars, rawEvents, deepDiveCache, microTimer, sessionTimer,
                 liveSummaryTimers, sessionStartTime, lastDeepDive, lastFlush, lastIngest>>

\* ---- generateDeepDive (lines 534-610)

getRawEventsOfAnyTime(table, start, end) == table

getRawEvents(table, start, end) ==
  SelectSeq(table, LAMBDA e : e.timestamp >= start /\ e.timestamp <= end)

\* `${activeSessionId || 'none'}:${start}:${end}`
CacheKey(start, end) == <<activeSessionId, start, end>>

getCachedDeepDive(cache, key) == IF key \in DOMAIN cache THEN cache[key] ELSE None

cacheDeepDive(cache, key, analysis) ==
  [k \in DOMAIN cache \cup {key} |-> IF k = key THEN analysis ELSE cache[k]]

NoDeepDive == [returned |-> <<>>, calls |-> 0, overlapped |-> FALSE]
DeepDiveOf(key) == IF key \in DOMAIN lastDeepDive THEN lastDeepDive[key] ELSE NoDeepDive

\* generateDeepDive returns the analysis to its caller.
DeepDiveReturn(key, analysis, from) ==
  lastDeepDive' =
    [k \in DOMAIN lastDeepDive \cup {key} |->
       IF k = key
       THEN [DeepDiveOf(key) EXCEPT
               !.returned = Append(@, [analysis |-> analysis, from |-> from])]
       ELSE lastDeepDive[k]]

DeepDiveRanges == {<<1, MaxTime>>}

\* ---- the prompt of a deep dive (lines 561-577)

PromptEventLimit == 50

NoPrompt == [event_count |-> 0, events |-> <<>>, overflow |-> <<>>]

eventSummariesOfAll(events) ==
  [i \in 1..Len(events) |-> [text |-> events[i].summaryText, time |-> events[i].timestamp]]

eventSummaries(events) ==
  LET CarriesText(e) == e.summaryText \notin {None, NoText}
      withText == SelectSeq(events, CarriesText)
  IN [i \in 1..Len(withText) |->
        [text |-> withText[i].summaryText, time |-> withText[i].timestamp]]

\* The overflow note <<k>> stands for '... and k more events'.
DeepDivePrompt(events) ==
  LET summaries == eventSummaries(events)
      eventsSlice == SubSeq(summaries, 1, IF Len(summaries) < PromptEventLimit
                                          THEN Len(summaries) ELSE PromptEventLimit)
      overflow == IF Len(summaries) > PromptEventLimit
                  THEN <<Len(summaries) - PromptEventLimit>> ELSE <<>>
  IN [event_count |-> Len(summaries), events |-> eventsSlice, overflow |-> overflow]

\* What db.getRawEvents(start, end) can return for a range of n events:
\* the events in time order, at most one of them with an empty (even
\* position) or a missing (odd position) summaryText.
EventsInRange(n) ==
  {[i \in 1..n |->
      [summaryText |-> IF i \notin textless THEN "text"
                       ELSE IF i % 2 = 0 THEN NoText ELSE None,
       timestamp |-> i]] : textless \in {{}} \cup {{i} : i \in 1..n}}

\* generateDeepDive builds its prompt from a non-empty range.
BuildDeepDivePrompt(events) ==
  /\ promptEvents' = events
  /\ prompt' = DeepDivePrompt(events)
  /\ UNCHANGED <<now, classifierVars, ingestVars, rawEvents, segments, summaryStore,
                 summarizerVars, lastFlush, lastIngest>>

generateDeepDive(start, end) ==
  LET key == CacheKey(start, end)
      cached == getCachedDeepDive(deepDiveCache, key)
      pending == {j \in 1..Len(tasks) : tasks[j].kind = "deepdive" /\ tasks[j].key = key}
  IN /\ Len(DeepDiveOf(key).returned) + Cardinality(pending) < MaxCallsPerKey
     /\ IF cached # None
        THEN DeepDiveReturn(key, cached, "cache") /\ UNCHANGED tasks
        ELSE IF ~llm
        THEN /\ DeepDiveReturn(key, "LLM not configured. Cannot generate deep dive.", "nollm")
             /\ UNCHANGED tasks
        ELSE IF Len(getRawEvents(rawEvents, start, end)) = 0
        THEN /\ DeepDiveReturn(key, "No events recorded for this time range.", "noevents")
             /\ UNCHANGED tasks
        ELSE /\ tasks' = Append(tasks, [kind |-> "deepdive", caller |-> "deepdive",
                                        source |-> "events", ids |-> <<>>, now |-> now,
                                        date |-> Today, key |-> key])
             /\ lastDeepDive' =
                  [k \in DOMAIN lastDeepDive \cup {key} |->
                     IF k = key
                     THEN [DeepDiveOf(key) EXCEPT !.calls = @ + 1,
                                                  !.overlapped = @ \/ pending # {}]
                     ELSE lastDeepDive[k]]
     /\ UNCHANGED <<now, classifierVars, promptVars, ingestVars, rawEvents, segments, summaryStore, llm, microTimer,
                    sessionTimer, liveSummaryTimers, activeSessionId, sessionStartTime,
                    lastMicroTime, lastSessionSummaryTime, stopPc, onDemandPc, lastStop,
                    lastOnDemand, completionFailed, lastFlush, lastIngest>>

\* The completion call of a suspended generateDeepDive returns (lines 595-609).
DeepDiveReturnedWithoutCaching(i, response) ==
  /\ i \in 1..Len(tasks)
  /\ tasks[i].kind = "deepdive"
  /\ tasks' = RemoveAt(tasks, i)
  /\ IF response.kind = "throw"
     THEN DeepDiveReturn(tasks[i].key, "Error generating analysis", "error")
     ELSE DeepDiveReturn(tasks[i].key,
                         IF response.summary # NoText THEN response.summary
                         ELSE "Analysis unavailable.", "llm")
  /\ UNCHANGED <<now, classifierVars, promptVars, ingestVars, rawEvents, segments, summaryStore, llm, microTimer,
                 sessionTimer, liveSummaryTimers, activeSessionId, sessionStartTime,
                 lastMicroTime, lastSessionSummaryTime, stopPc, onDemandPc, lastStop,
                 lastOnDemand, completionFailed, lastFlush, lastIngest>>

DeepDiveReturned(i, response) ==
  /\ i \in 1..Len(tasks)
  /\ tasks[i].kind = "deepdive"
  /\ tasks' = RemoveAt(tasks, i)
  /\ IF response.kind = "throw"
     THEN /\ DeepDiveReturn(tasks[i].key, "Error generating analysis", "error")
          /\ UNCHANGED deepDiveCache
     ELSE LET analysis == IF response.summary # NoText THEN response.summary
                          ELSE "Analysis unavailable."
          IN /\ deepDiveCache' = cacheDeepDive(deepDiveCache, tasks[i].key, analysis)
             /\ DeepDiveReturn(tasks[i].key, analysis, "llm")
  /\ UNCHANGED <<now, classifierVars, promptVars, ingestVars, rawEvents, segments, microSummaries, sessionSummaries,
                 dailySummaries, llm, microTimer, sessionTimer, liveSummaryTimers,
                 activeSessionId, sessionStartTime, lastMicroTime, lastSessionSummaryTime,
                 stopPc, onDemandPc, lastStop, lastOnDemand, completionFailed, lastFlush, lastIngest>>

\* ------------------------------------------------------------------ inputs
IngestMessages ==
  { Message("scene_index", NoText, TextVSCode, NoText, NoText, NoText),
    Message("scene_index", NoText, NoText, TextChrome, NoText, NoText),
    Message(NoText, "visual_index", TextVSCode, NoText, NoText, NoText),
    Message("scene_index", NoText, TextNoApp, NoText, NoText, NoText),
    Message("scene_index", NoText, TextBlank, NoText, NoText, NoText),
    Message("transcript", NoText, "hello", NoText, NoText, NoText),
    Message("transcript", NoText, NoText, NoText, NoText, NoText),
    Message("spoken_index", NoText, NoText, NoText, NoText, NoText),
    Message("alert", NoText, NoText, NoText, "Slack", NoText),
    Message("heartbeat", NoText, NoText, NoText, NoText, NoText),
    Message(NoText, NoText, "hello", NoText, NoText, NoText),
    Message("scene_index", NoText, TextNumber, NoText, NoText, NoText),
    Message("alert", NoText, NoText, NoText, TextNumber, NoText) }

\* The capture session a start call names: the first session id that has no
\* events yet (session ids are issued once per capture session).
FreshSessions ==
  LET unused == {s \in Sessions : \A i \in 1..Len(rawEvents) : rawEvents[i].sessionId # s}
  IN IF "s1" \in unused THEN {"s1"} ELSE unused

Init ==
  /\ now = 0
  /\ buffer = <<>>
  /\ flushTimer = FALSE
  /\ liveFlushTimers = 0
  /\ ingestSessionId = None
  /\ totalIngested = 0
  /\ totalFlushed = 0
  /\ rawEvents = <<>>
  /\ segments = <<>>
  /\ lastFlush = [events |-> <<>>, firstId |-> 0, by |-> None]
  /\ lastIngest = [outcome |-> None, sessionId |-> None]
  /\ microSummaries = <<>>
  /\ sessionSummaries = <<>>
  /\ dailySummaries = {}
  /\ deepDiveCache = <<>>
  /\ llm = FALSE
  /\ microTimer = FALSE
  /\ sessionTimer = FALSE
  /\ liveSummaryTimers = 0
  /\ activeSessionId = None
  /\ sessionStartTime = 0
  /\ lastMicroTime = 0
  /\ lastSessionSummaryTime = 0
  /\ tasks = <<>>
  /\ stopPc = "idle"
  /\ onDemandPc = "idle"
  /\ lastStop = [called |-> FALSE, ready |-> FALSE, sessionId |-> None, segmentsBefore |-> 0,
                 attempts |-> <<>>, failed |-> <<>>, finished |-> FALSE]
  /\ lastOnDemand = [called |-> FALSE, seen |-> <<>>, result |-> None, flushCalls |-> 0,
                     ownCalls |-> 0, finished |-> FALSE]
  /\ lastDeepDive = <<>>
  /\ completionFailed = FALSE
  /\ scene = EmptyScene
  /\ parsed = NotParsed
  /\ actionTexts = <<>>
  /\ inferred = NotInferred
  /\ promptEvents = <<>>
  /\ prompt = NoPrompt

\* The app exits and is started again: the variables of both modules have
\* their initial values again, the rows of the store are still there.
AppRestarts ==
  /\ buffer' = <<>>
  /\ flushTimer' = FALSE
  /\ liveFlushTimers' = 0
  /\ ingestSessionId' = None
  /\ totalIngested' = 0
  /\ totalFlushed' = 0
  /\ llm' = FALSE
  /\ microTimer' = FALSE
  /\ sessionTimer' = FALSE
  /\ liveSummaryTimers' = 0
  /\ activeSessionId' = None
  /\ sessionStartTime' = 0
  /\ lastMicroTime' = 0
  /\ lastSessionSummaryTime' = 0
  /\ tasks' = <<>>
  /\ stopPc' = "idle"
  /\ onDemandPc' = "idle"
  /\ lastFlush' = [events |-> <<>>, firstId |-> 0, by |-> None]
  /\ lastIngest' = [outcome |-> None, sessionId |-> None]
  /\ lastStop' = [called |-> FALSE, ready |-> FALSE, sessionId |-> None, segmentsBefore |-> 0,
                  attempts |-> <<>>, failed |-> <<>>, finished |-> FALSE]
  /\ lastOnDemand' = [called |-> FALSE, seen |-> <<>>, result |-> None, flushCalls |-> 0,
                      ownCalls |-> 0, finished |-> FALSE]
  /\ UNCHANGED <<now, classifierVars, promptVars, rawEvents, segments, summaryStore, lastDeepDive, completionFailed>>

NextIngest ==
  \/ \E sessionId \in FreshSessions : ~flushTimer /\ startIngestion(sessionId)
  \/ \E msg \in IngestMessages : ingestEvent(msg)
  \/ flushToSegments
  \/ stopIngestion
  \/ Tick

SpecIngest == Init /\ [][NextIngest]_vars

\* The completion API fails, or returns a JSON object with every field set.
SummaryResponses == {r \in Responses : r.kind # "ok" \/ r.summary # NoText}

\* The scene texts of the summarization behaviours: two apps, and a scene
\* that names no app.
SummaryMessages ==
  { Message("scene_index", NoText, TextVSCode, NoText, NoText, NoText),
    Message("scene_index", NoText, TextGithub, NoText, NoText, NoText),
    Message("scene_index", NoText, TextNoApp, NoText, NoText, NoText) }

\* One scene text, where the apps do not matter.
CaptureMessages == {Message("scene_index", NoText, TextVSCode, NoText, NoText, NoText)}

\* The session lifecycle starts the Ingestor and the Summarizer with one id;
\* these behaviours follow one capture session.
StartCapture == \E sessionId \in FreshSessions \cap {"s1"} :
                  ingestSessionId = None /\ startIngestion(sessionId)

StartSummaries == \E sessionId \in Sessions \cap {ingestSessionId} :
                    ~microTimer /\ startPeriodicSummaries(sessionId)

NextSummaries ==
  \/ initSummarizer
  \/ StartCapture
  \/ StartSummaries
  \/ \E msg \in SummaryMessages : ingestEvent(msg)
  \/ flushToSegments
  \/ Tick
  \/ MicroTimerFires /\ Len(tasks') <= MaxTasks
  \/ SessionTimerFires /\ Len(tasks') <= MaxTasks
  \/ \E i \in 1..MaxTasks, response \in SummaryResponses : CompletionReturns(i, response)

SpecSummaries == Init /\ [][NextSummaries]_vars

NextStop ==
  \/ initSummarizer
  \/ StartCapture
  \/ StartSummaries
  \/ \E msg \in CaptureMessages : ingestEvent(msg)
  \/ flushToSegments
  \/ Tick
  \/ MicroTimerFires /\ Len(tasks') <= MaxTasks
  \/ stopPeriodicSummaries /\ Len(tasks') <= MaxTasks
  \/ \E i \in 1..MaxTasks, response \in SummaryResponses : CompletionReturns(i, response)

SpecStop == Init /\ [][NextStop]_vars

NextOnDemand ==
  \/ initSummarizer
  \/ StartCapture
  \/ StartSummaries
  \/ \E msg \in CaptureMessages : ingestEvent(msg)
  \/ flushToSegments
  \/ Tick
  \/ MicroTimerFires /\ Len(tasks') <= MaxTasks
  \/ generateOnDemandSummary /\ Len(tasks') <= MaxTasks
  \/ \E i \in 1..MaxTasks, response \in Responses : CompletionReturns(i, response)
  \/ AppRestarts

SpecOnDemand == Init /\ [][NextOnDemand]_vars

DeepDiveResponses == {r \in Responses : r.kind = "throw" \/ r.summary \in {NoText, "wrote code"}}

NextDeepDive ==
  \/ initSummarizer
  \/ \E sessionId \in FreshSessions \cap {"s1"} : startIngestion(sessionId)
  \/ \E sessionId \in Sessions \cap {ingestSessionId} : startPeriodicSummaries(sessionId)
  \/ \E msg \in CaptureMessages : ingestEvent(msg)
  \/ Tick
  \/ \E range \in DeepDiveRanges : generateDeepDive(range[1], range[2])
  \/ \E i \in 1..MaxCallsPerKey, response \in DeepDiveResponses :
       DeepDiveReturned(i, response)

SpecDeepDive == Init /\ [][NextDeepDive]_vars

\* One capture session from its start to the end of its drain, with both
\* timers and with completion calls that all succeed.
OkResponses == {r \in Responses : r.kind = "ok" /\ r.summary # NoText}

StartSummariesOnce == ~lastStop.called /\ StartSummaries

NextRollup ==
  \/ initSummarizer
  \/ StartCapture
  \/ StartSummariesOnce
  \/ \E msg \in CaptureMessages : ingestEvent(msg)
  \/ flushToSegments
  \/ Tick
  \/ MicroTimerFires /\ Len(tasks') <= MaxTasks
  \/ SessionTimerFires /\ Len(tasks') <= MaxTasks
  \/ stopPeriodicSummaries /\ Len(tasks') <= MaxTasks
  \/ \E i \in 1..MaxTasks, response \in OkResponses : CompletionReturns(i, response)

SpecRollup == Init /\ [][NextRollup]_vars

\* What the model may put into start_hour and end_hour of a section:
\* nothing, zero, or an hour of the day.
HourValues == {<<>>, <<0>>, <<9>>, <<17>>}

\* Completion output with one section.
SectionResponses ==
  {[claimedSecs |-> 99, kind |-> "ok", label |-> None, project |-> None,
    sections |-> <<[end_hour |-> e, start_hour |-> s]>>, summary |-> "wrote code"] :
     s \in HourValues, e \in HourValues}

\* One capture session to the end of its drain, for every pair of hours in
\* the daily summary's section.
NextDrillDown ==
  \/ initSummarizer
  \/ StartCapture
  \/ StartSummaries
  \/ \E msg \in CaptureMessages : ingestEvent(msg)
  \/ flushToSegments
  \/ Tick
  \/ stopPeriodicSummaries /\ Len(tasks') <= MaxTasks
  \/ \E i \in 1..MaxTasks, response \in SectionResponses : CompletionReturns(i, response)

SpecDrillDown == Init /\ [][NextDrillDown]_vars

\* One capture session whose micro timer fires, and whose stop is called,
\* while earlier generations are still suspended at their completion calls;
\* the calls return in any order.
NextOverlap ==
  \/ initSummarizer
  \/ StartCapture
  \/ StartSummaries
  \/ \E msg \in CaptureMessages : ingestEvent(msg)
  \/ flushToSegments
  \/ Tick
  \/ MicroTimerFires
  \/ stopPeriodicSummaries
  \/ \E i \in 1..MaxOverlap, response \in OkResponses : CompletionReturns(i, response)

SpecOverlap == Init /\ [][NextOverlap]_vars

NextPrompt ==
  \E n \in 1..MaxInRange : \E events \in EventsInRange(n) : BuildDeepDivePrompt(events)

SpecPrompt == Init /\ [][NextPrompt]_vars

\* The scene texts of this model: no word (an empty text), one word or two.
NextAction ==
  LET words == {"editing", "code", "writing", "replying", "call", "idle"}
      texts == {<<>>} \cup {<<w>> : w \in words} \cup {<<v, w>> : v, w \in words}
  IN \/ InferAction(<<>>)
     \/ /\ Len(actionTexts) < MaxTexts
        /\ \E text \in texts : InferAction(Append(actionTexts, text))

SpecAction == Init /\ [][NextAction]_vars

\* Calls of parseSceneIndex with texts of the three shapes.
NextClassifier == \E text \in SceneTexts \cup {EmptyScene} : Classify(text)

SpecClassifier == Init /\ [][NextClassifier]_vars

\* What the model may put into the project field of its output: nothing, an
\* empty or blank string, 'null' in either case, a name or 'null' with
\* spaces around it.
ProjectValues == {None, NoText, TextBlank, "null", "NULL", " focusd ", " null "}

ProjectResponses == {Response("ok", "wrote code", p, "productive") : p \in ProjectValues}

\* What the model may put into productivity_label: nothing, an empty string,
\* a label of the enumeration, or a word outside it.
LabelValues == {None, NoText, "distracted", "focused"}

LabelResponses == {Response("ok", "wrote code", None, l) : l \in LabelValues}

\* Micro-summaries of one capture session, for every project value and
\* every label value.
NextMicroFields ==
  \/ initSummarizer
  \/ StartCapture
  \/ StartSummaries
  \/ \E msg \in CaptureMessages : ingestEvent(msg)
  \/ flushToSegments
  \/ Tick
  \/ MicroTimerFires /\ Len(tasks') <= MaxTasks
  \/ \E i \in 1..MaxTasks, response \in ProjectResponses \cup LabelResponses :
       CompletionReturns(i, response)

SpecMicroFields == Init /\ [][NextMicroFields]_vars

\* Start and stop calls in any order, a start without a stop before it
\* included, within one second: no segment becomes eligible for a summary, so
\* no completion call is made.
NextLifecycle ==
  \/ initSummarizer
  \/ \E sessionId \in FreshSessions : startIngestion(sessionId)
  \/ stopIngestion
  \/ \E msg \in CaptureMessages : ingestEvent(msg)
  \/ flushToSegments
  \/ \E sessionId \in Sessions \cap {ingestSessionId} : startPeriodicSummaries(sessionId)
  \/ stopPeriodicSummaries /\ Len(tasks') <= MaxTasks
  \/ MicroTimerFires /\ Len(tasks') <= MaxTasks
  \/ SessionTimerFires /\ Len(tasks') <= MaxTasks

SpecLifecycle == Init /\ [][NextLifecycle]_vars

\* ------------------------------------------------- properties of one flush

\* The segments the latest flush created, in creation order.
LastFlushSegments ==
  IF lastFlush.firstId = 0 THEN <<>>
  ELSE SubSeq(segments, lastFlush.firstId, Len(segments))

RECURSIVE ConcatEventIds(_)
ConcatEventIds(segs) ==
  IF segs = <<>> THEN <<>> ELSE Head(segs).eventIds \o ConcatEventIds(Tail(segs))

RECURSIVE SumEventCount(_)
SumEventCount(segs) ==
  IF segs = <<>> THEN 0 ELSE Head(segs).eventCount + SumEventCount(Tail(segs))

\* C1: the segments one flush creates, concatenated in creation order, count
\* exactly the events of the flushed buffer, each once and in arrival order,
\* and their eventCount values sum to the length of the buffer.
C1_FlushPartitionsBuffer ==
  lastFlush.firstId # 0 =>
    /\ ConcatEventIds(LastFlushSegments)
         = [i \in 1..Len(lastFlush.events) |-> lastFlush.events[i].id]
    /\ SumEventCount(LastFlushSegments) = Len(lastFlush.events)
    /\ \A k \in 1..Len(LastFlushSegments) :
         LastFlushSegments[k].eventCount = Len(LastFlushSegments[k].eventIds)

\* A flush of three events has created two segments.
C1_Witness ==
  /\ Len(lastFlush.events) = 3
  /\ Len(LastFlushSegments) = 2
  /\ buffer = <<>>

\* The positions of the flushed buffer at which a segment of the latest flush
\* starts.
SegmentStarts ==
  {1 + SumEventCount(SubSeq(LastFlushSegments, 1, k - 1)) : k \in 1..Len(LastFlushSegments)}

\* A scene_index/visual_index/alert event that names an app.
NamesApp(event) == HasAppInfo(event) /\ event.appName # NoApp

\* The app of the run that reaches position i of the buffer: the app named by
\* the latest app-naming event before i, NoApp when there is none.
RunAppBefore(events, i) ==
  LET named == {j \in 1..(i - 1) : NamesApp(events[j])}
  IN IF named = {} THEN NoApp
     ELSE events[CHOOSE j \in named : \A k \in named : k <= j].appName

\* Position i holds an app-naming event whose app differs from the run's.
IntroducesApp(events, i) ==
  NamesApp(events[i]) /\ events[i].appName # RunAppBefore(events, i)

\* k >= 1 scene events of one app followed by m >= 1 of another app
SceneRunsAt(events, k) ==
  /\ k \in 1..(Len(events) - 1)
  /\ \A i \in 1..Len(events) : events[i].channel \in {"scene_index", "visual_index"}
                                /\ events[i].appName # NoApp
  /\ \A i \in 1..k : events[i].appName = events[1].appName
  /\ \A i \in (k + 1)..Len(events) : events[i].appName = events[k + 1].appName
  /\ events[1].appName # events[k + 1].appName

\* C2 as stated: a segment starts at a position of the flushed buffer if and
\* only if that position holds a scene/visual/alert event naming an app other
\* than the current run's; a transcript never starts one, wherever it sits.
C2_Original ==
  lastFlush.firstId # 0 =>
    \A i \in 1..Len(lastFlush.events) :
      i \in SegmentStarts <=> IntroducesApp(lastFlush.events, i)

\* C2 amended: the first event of the buffer always starts the first segment,
\* whatever its channel; at every later position a segment starts if and only
\* if the event there is a scene/visual/alert event naming an app other than
\* the current run's.  k scene events of one app followed by m of another
\* yield two segments of k and m events.
C2_BoundariesAfterFirst ==
  lastFlush.firstId # 0 =>
    /\ 1 \in SegmentStarts
    /\ \A i \in 2..Len(lastFlush.events) :
         i \in SegmentStarts <=> IntroducesApp(lastFlush.events, i)
    /\ \A k \in 1..Len(lastFlush.events) :
         SceneRunsAt(lastFlush.events, k) =>
           /\ Len(LastFlushSegments) = 2
           /\ LastFlushSegments[1].eventCount = k
           /\ LastFlushSegments[2].eventCount = Len(lastFlush.events) - k

\* A flush of a VS Code scene, a transcript and a Chrome scene has created two
\* segments, of two events and of one.
C2_Witness ==
  /\ Len(lastFlush.events) = 3
  /\ lastFlush.events[1].appName = "VS Code"
  /\ lastFlush.events[2].channel = "transcript"
  /\ lastFlush.events[3].appName = "Chrome"
  /\ Len(LastFlushSegments) = 2
  /\ LastFlushSegments[1].eventCount = 2

\* ------------------------------------------- properties of the Summarizer

IdSet(ids) == {ids[k] : k \in 1..Len(ids)}

\* The ids listed in segmentIds of some MicroSummary.
SummarizedSegmentIds ==
  UNION {IdSet(microSummaries[m].segmentIds) : m \in 1..Len(microSummaries)}

\* C3 as stated: when stopPeriodicSummaries has completed and no completion
\* call failed, every segment persisted for the stopped session before the
\* stop is listed in the segmentIds of some MicroSummary.
C3_DrainedAtStop ==
  (lastStop.finished /\ lastStop.ready /\ ~completionFailed) =>
    \A i \in 1..lastStop.segmentsBefore :
      segments[i].sessionId = lastStop.sessionId => i \in SummarizedSegmentIds

RECURSIVE SumDurations(_, _)
\* The sum of endTime - startTime over the rows with the given ids.
SumDurations(table, ids) ==
  IF ids = {} THEN 0
  ELSE LET i == CHOOSE j \in ids : TRUE
       IN (table[i].endTime - table[i].startTime) + SumDurations(table, ids \ {i})

\* C4: every persisted MicroSummary maps each app to the sum of
\* endTime - startTime of its contributing segments with that primary app
\* ('Unknown' when absent), so that the total of appBreakdown is the total
\* duration of exactly the segments fetched for it, whatever the model
\* returned.
C4_AppBreakdownFromSegments ==
  \A m \in 1..Len(microSummaries) :
    LET micro == microSummaries[m]
        ids == IdSet(micro.segmentIds)
        apps == {AppOrUnknown(segments[i]) : i \in ids}
    IN /\ DOMAIN micro.appBreakdown = apps
       /\ \A app \in apps :
            micro.appBreakdown[app]
              = SumDurations(segments, {i \in ids : AppOrUnknown(segments[i]) = app})
       /\ SumOfMap(micro.appBreakdown) = SumDurations(segments, ids)

\* A MicroSummary of two segments, one of them without a primary app, with a
\* non-zero total.
C4_Witness ==
  \E m \in 1..Len(microSummaries) :
    /\ Len(microSummaries[m].segmentIds) = 2
    /\ "Unknown" \in DOMAIN microSummaries[m].appBreakdown
    /\ SumOfMap(microSummaries[m].appBreakdown) > 0

RECURSIVE SumBreakdowns(_, _, _)
\* The seconds the breakdowns of the given MicroSummaries hold for the apps.
SumBreakdowns(table, ids, apps) ==
  IF ids = {} THEN 0
  ELSE LET i == CHOOSE j \in ids : TRUE
           own == [a \in DOMAIN table[i].appBreakdown \cap apps |-> table[i].appBreakdown[a]]
       IN SumOfMap(own) + SumBreakdowns(table, ids \ {i}, apps)

AppNames == {"VS Code", "github.com", "github", "Unknown", "Chrome", "Slack"}

\* C5 as stated: the per-app durations of appStats sum to the sum of
\* endTime - startTime over the contributing MicroSummaries.
C5_Original ==
  \A n \in 1..Len(sessionSummaries) :
    SumOfMap(sessionSummaries[n].appStats)
      = SumDurations(microSummaries, IdSet(sessionSummaries[n].microIds))

\* C5 amended: appStats holds, per app name with its TLD suffix stripped, the
\* sum of the contributing MicroSummaries' appBreakdown entries; its total is
\* the total of those breakdowns (the durations of the segments behind them),
\* not the span of the MicroSummaries.
C5_AppStatsFromBreakdowns ==
  \A n \in 1..Len(sessionSummaries) :
    LET session == sessionSummaries[n]
        ids == IdSet(session.microIds)
    IN /\ DOMAIN session.appStats
            = {NormalizedApp(a) : a \in UNION {DOMAIN microSummaries[i].appBreakdown : i \in ids}}
       /\ \A app \in DOMAIN session.appStats :
            session.appStats[app]
              = SumBreakdowns(microSummaries, ids,
                              {a \in AppNames : NormalizedApp(a) = app})
       /\ SumOfMap(session.appStats) = SumBreakdowns(microSummaries, ids, AppNames)

\* A SessionSummary whose MicroSummary spans more than its segments last,
\* with the time of github.com counted under github.
C5_Witness ==
  \E n \in 1..Len(sessionSummaries) :
    /\ "github" \in DOMAIN sessionSummaries[n].appStats
    /\ SumOfMap(sessionSummaries[n].appStats)
         < SumDurations(microSummaries, IdSet(sessionSummaries[n].microIds))

StopOrder == <<"micro", "session", "daily">>

\* C7: with no LLM client, no active session or no eligible segment,
\* generateMicroSummary returns none and leaves everything as it was: no
\* completion call is pending, no row is written, lastMicroTime keeps its
\* value.
C7_NoOpWithoutInput ==
  \A caller \in {"timer", "stop", "ondemand"} :
    (\/ ~llm
     \/ activeSessionId = None
     \/ Len(getUnprocessedSegmentsForMicro(segments, activeSessionId, lastMicroTime)) = 0)
    => generateMicroSummary(Current, caller) = ReturnNull(Current)

\* stopPeriodicSummaries ran generateMicroSummary while a segment was stored
\* but none was eligible: no MicroSummary exists and no call is pending.
C7_Witness ==
  /\ lastStop.finished
  /\ lastStop.attempts = StopOrder
  /\ lastStop.segmentsBefore > 0
  /\ ~completionFailed
  /\ microSummaries = <<>>
  /\ tasks = <<>>
  /\ lastMicroTime = sessionStartTime

FailureResponses == {r \in Responses : r.kind # "ok"}

\* C8: when the completion call of a suspended micro, session or daily
\* generation throws or returns text that is not JSON, the generation writes
\* no row, leaves lastMicroTime and lastSessionSummaryTime and the segments
\* as they are, and its caller goes on; the next trigger selects from the
\* same state.
C8_FailureChangesNothing ==
  \A i \in 1..Len(tasks), response \in FailureResponses :
    tasks[i].kind \in {"micro", "session", "daily"} =>
      LET S == [Current EXCEPT !.tasks = RemoveAt(@, i)]
          done == Returned(S, tasks[i], response)
      IN /\ done = S
         /\ done.microSummaries = microSummaries
         /\ done.sessionSummaries = sessionSummaries
         /\ done.dailySummaries = dailySummaries
         /\ done.lastMicroTime = lastMicroTime
         /\ done.lastSessionSummaryTime = lastSessionSummaryTime
         /\ generateMicroSummary(done, "timer") = generateMicroSummary(S, "timer")

\* A micro generation failed: no row exists, the watermark is the session
\* start, and the segments are still eligible.
C8_Witness ==
  /\ completionFailed
  /\ tasks = <<>>
  /\ microSummaries = <<>>
  /\ activeSessionId # None
  /\ lastMicroTime = sessionStartTime
  /\ Len(getUnprocessedSegmentsForMicro(segments, activeSessionId, lastMicroTime)) > 0

\* C9 as stated: every completed stopPeriodicSummaries has attempted the
\* micro-summary, the session summary and the daily summary, in that order.
C9_Original == lastStop.finished => lastStop.attempts = StopOrder

\* C9 amended: when an active session and an LLM client exist at the call,
\* stopPeriodicSummaries attempts micro, session and daily in that order and
\* a failed or empty step does not keep the next from being attempted; with
\* no active session or no LLM client it attempts none of them.
C9_InOrderWhenReady ==
  lastStop.called =>
    /\ ~lastStop.ready => (lastStop.attempts = <<>> /\ lastStop.finished)
    /\ lastStop.ready =>
         /\ lastStop.attempts = SubSeq(StopOrder, 1, Len(lastStop.attempts))
         /\ lastStop.finished => lastStop.attempts = StopOrder
         /\ ~lastStop.finished => (lastStop.attempts # <<>> /\ Last(lastStop.attempts) = stopPc)
         /\ IdSet(lastStop.failed) \subseteq IdSet(lastStop.attempts)

\* The micro step of a stop failed, and the session and daily steps were
\* attempted all the same.
C9_Witness ==
  /\ lastStop.finished
  /\ lastStop.failed = <<"micro">>
  /\ lastStop.attempts = StopOrder

\* C10: when generateOnDemandSummary finds exactly one MicroSummary for the
\* day after its forced flush, it returns that row's summary unchanged and
\* makes no completion call besides the one the flush may have made.
C10_SingleMicroVerbatim ==
  (lastOnDemand.finished /\ Len(lastOnDemand.seen) = 1) =>
    /\ lastOnDemand.result = microSummaries[lastOnDemand.seen[1]].summary
    /\ lastOnDemand.ownCalls = 0
    /\ lastOnDemand.flushCalls <= 1

\* The forced flush wrote the day's only MicroSummary and the call returned
\* its text.
C10_Witness ==
  /\ lastOnDemand.finished
  /\ Len(lastOnDemand.seen) = 1
  /\ lastOnDemand.flushCalls = 1
  /\ lastOnDemand.result = "wrote code"

\* ----------------------------------------------- properties of deep dives

\* C6 as stated: two calls with one cache key return identical results and
\* issue exactly one completion call in total.
C6_Original ==
  \A key \in DOMAIN lastDeepDive :
    Len(lastDeepDive[key].returned) = 2 =>
      /\ lastDeepDive[key].returned[1].analysis = lastDeepDive[key].returned[2].analysis
      /\ lastDeepDive[key].calls = 1

\* C6 amended: when the first call's completion succeeded before the second
\* call was made, the second call returns the cached analysis unchanged and
\* one completion call was issued in total; a call answered without the
\* completion API (no LLM client, no events) issues none, and an analysis
\* that failed is not cached.
C6_CachedAfterSuccess ==
  \A key \in DOMAIN lastDeepDive :
    LET d == lastDeepDive[key]
        pending == {j \in 1..Len(tasks) : tasks[j].kind = "deepdive" /\ tasks[j].key = key}
        viaApi == {k \in 1..Len(d.returned) : d.returned[k].from \in {"llm", "error"}}
    IN /\ (Len(d.returned) >= 2 /\ d.returned[1].from = "llm" /\ ~d.overlapped) =>
            /\ d.returned[2] = [analysis |-> d.returned[1].analysis, from |-> "cache"]
            /\ d.calls = 1
       /\ d.calls = Cardinality(viaApi) + Cardinality(pending)
       /\ \A k \in 1..Len(d.returned) :
            d.returned[k].from = "cache" =>
              \E j \in 1..(k - 1) : /\ d.returned[j].from = "llm"
                                    /\ d.returned[j].analysis = d.returned[k].analysis

\* Two calls with one key: the first was answered by the completion API, the
\* second from the cache.
C6_Witness ==
  \E key \in DOMAIN lastDeepDive :
    /\ Len(lastDeepDive[key].returned) = 2
    /\ lastDeepDive[key].returned[1].from = "llm"
    /\ lastDeepDive[key].returned[2].from = "cache"
    /\ lastDeepDive[key].calls = 1

\* C11: with no SessionSummary and no MicroSummary for the date,
\* generateDailySummary returns none and leaves everything as it was: no
\* completion call is pending and no DailySummary row is written.
C11_NoDailyWithoutInput ==
  \A caller \in {"stop", "external"} :
    (/\ Len(getSessionSummaries(sessionSummaries, Today)) = 0
     /\ Len(getMicroSummaries(microSummaries, DayStart, DayStart + SecondsPerDay)) = 0)
    => generateDailySummary(Current, Today, caller) = ReturnNull(Current)

\* A stop with an LLM client reached its daily step while no summary of any
\* layer existed: it finished with no row and no call.
C11_Witness ==
  /\ lastStop.finished
  /\ lastStop.ready
  /\ Len(lastStop.attempts) = 3
  /\ lastStop.failed = <<>>
  /\ microSummaries = <<>>
  /\ sessionSummaries = <<>>
  /\ dailySummaries = {}
  /\ llm
  /\ tasks = <<>>

\* ------------------------------------------ properties of the Event Ingestor

\* The message is one the Ingestor discards: no session is active, it has no
\* channel or an unknown one, or its scene/visual/transcript text is blank.
IsDiscarded(msg) ==
  \/ ingestSessionId = None
  \/ ChannelOf(msg) = NoText
  \/ ChannelOf(msg) \notin KnownChannels
  \/ /\ ChannelOf(msg) \in {"scene_index", "visual_index"}
     /\ IsBlank(Or(msg.dataText, msg.text))
  \/ /\ ChannelOf(msg) = "transcript"
     /\ IsBlank(Or(msg.text, msg.dataText))

\* C12: an ingestEvent step for a discarded message leaves the buffer, the
\* ingested counter and the persistent store unchanged.
C12_DiscardChangesNothing ==
  [][\A msg \in IngestMessages :
       (IsDiscarded(msg) /\ ingestEvent(msg)) =>
         UNCHANGED <<buffer, totalIngested, rawEvents, segments, summaryStore>>]_vars

\* A message was discarded while a session was active and an event was
\* buffered: the buffer and the counter still show that one event.
C12_Witness ==
  /\ lastIngest.outcome = "discarded"
  /\ lastIngest.sessionId # None
  /\ Len(buffer) = 1
  /\ totalIngested = 1
  /\ Len(rawEvents) = 1

\* Every buffered event is the stored RawEvent of its id and carries the
\* active session id; a spoken_index message without summary is accepted.
BufferedIsStored ==
  /\ \A i \in 1..Len(buffer) :
       /\ buffer[i].id \in 1..Len(rawEvents)
       /\ rawEvents[buffer[i].id] = buffer[i]
       /\ buffer[i].sessionId = ingestSessionId
  /\ \A sessionId \in Sessions :
       Outcome(sessionId, Message("spoken_index", NoText, NoText, NoText, NoText, NoText))
         = "accepted"

\* C13: a step that persists a RawEvent persists exactly one, appends that
\* same event to the end of the buffer and tags it with the session id active
\* in that step; at every point every buffered event is in the store, and a
\* spoken_index message is accepted without summary text.
C13_AcceptedIsStoredAndBuffered ==
  /\ []BufferedIsStored
  /\ [][rawEvents' # rawEvents =>
          /\ Len(rawEvents') = Len(rawEvents) + 1
          /\ SubSeq(rawEvents', 1, Len(rawEvents)) = rawEvents
          /\ buffer' = Append(buffer, Last(rawEvents'))
          /\ ingestSessionId # None
          /\ Last(rawEvents').sessionId = ingestSessionId
          /\ totalIngested' = totalIngested + 1]_vars

\* A spoken_index event without text is the newest event of the store and of
\* the buffer.
C13_Witness ==
  /\ Len(buffer) = 2
  /\ Last(buffer).channel = "spoken_index"
  /\ Last(buffer).summaryText = NoText
  /\ Last(rawEvents) = Last(buffer)
  /\ lastIngest.outcome = "accepted"

\* With no active session the buffer is empty and every message is discarded.
IdleIngestor ==
  ingestSessionId = None =>
    /\ buffer = <<>>
    /\ \A msg \in IngestMessages : Outcome(ingestSessionId, msg) = "discarded"

\* C15: a stopIngestion step leaves the buffer empty and the session id
\* cleared, and the segments its final flush creates count exactly the events
\* that were buffered at the call; from then on, as long as no session is
\* active, every message is discarded.
C15_StopDrainsBuffer ==
  /\ []IdleIngestor
  /\ [][stopIngestion =>
          /\ buffer' = <<>>
          /\ ingestSessionId' = None
          /\ ~flushTimer'
          /\ buffer # <<>> =>
               /\ lastFlush' = [events |-> buffer, firstId |-> Len(segments) + 1,
                                by |-> "stop"]
               /\ ConcatEventIds(SubSeq(segments', Len(segments) + 1, Len(segments')))
                    = [i \in 1..Len(buffer) |-> buffer[i].id]]_vars

\* stopIngestion flushed two buffered events, and a message that arrived
\* afterwards was discarded.
C15_Witness ==
  /\ ingestSessionId = None
  /\ lastFlush.by = "stop"
  /\ Len(lastFlush.events) = 2
  /\ ConcatEventIds(LastFlushSegments) = <<lastFlush.events[1].id, lastFlush.events[2].id>>
  /\ buffer = <<>>
  /\ lastIngest = [outcome |-> "discarded", sessionId |-> None]
  /\ Len(rawEvents) = 2

\* C14 as stated: no ingestEvent call throws.
C14_NeverThrows == lastIngest.outcome # "threw"

\* ------------------------------------------------ properties of the timers

\* C16 as stated: once stopIngestion has returned no flush timer is armed,
\* and once stopPeriodicSummaries has begun no micro-summary or
\* session-summary timer is armed, until the next start call.
C16_StopDisarms ==
  /\ ~flushTimer => liveFlushTimers = 0
  /\ ~microTimer => liveSummaryTimers = 0

\* C17 as stated: the summarizer's timers are armed only while a session id
\* is set and no drain is in progress.
C17_TimersOnlyWhileIngesting ==
  (microTimer \/ sessionTimer) => (activeSessionId # None /\ stopPc = "idle")

\* ingestEvent and the flush timer can act.
CaptureEnabled ==
  /\ liveFlushTimers > 0 => ENABLED flushToSegments
  /\ (Len(rawEvents) < MaxEvents /\ totalIngested < MaxEvents) =>
       \A msg \in CaptureMessages : ENABLED ingestEvent(msg)

\* C18: while a completion call is pending, ingestEvent and flushToSegments
\* stay enabled and do what they do otherwise: an accepted event is persisted
\* and buffered, a flush turns the buffer into segments, and the pending
\* calls are left alone.
C18_CaptureNotBlocked ==
  /\ [](tasks # <<>> => CaptureEnabled)
  /\ [][tasks # <<>> =>
          /\ \A msg \in CaptureMessages :
               (ingestEvent(msg) /\ Outcome(ingestSessionId, msg) = "accepted") =>
                 /\ Len(rawEvents') = Len(rawEvents) + 1
                 /\ buffer' = Append(buffer, Last(rawEvents'))
                 /\ tasks' = tasks
          /\ (flushToSegments /\ ingestSessionId # None /\ buffer # <<>>) =>
               /\ buffer' = <<>>
               /\ segments' = segments \o FlushedSegments(buffer, ingestSessionId,
                                                          Len(segments) + 1)
               /\ tasks' = tasks]_vars

\* A completion call issued at one second is still pending while an event of
\* a later second has been ingested and flushed into a segment.
C18_Witness ==
  /\ tasks # <<>>
  /\ rawEvents # <<>>
  /\ Last(rawEvents).timestamp > tasks[1].now
  /\ segments # <<>>
  /\ Last(segments).startTime > tasks[1].now
  /\ buffer = <<>>

\* C19: every ActivitySegment ends no earlier than it starts, and the
\* segments of one flush are time-ordered and non-overlapping: each ends no
\* later than the next one starts.
C19_SegmentsOrdered ==
  /\ \A i \in 1..Len(segments) : segments[i].endTime >= segments[i].startTime
  /\ \A k \in 1..(Len(LastFlushSegments) - 1) :
       LastFlushSegments[k].endTime <= LastFlushSegments[k + 1].startTime

\* One flush created a segment that spans two seconds and a second segment
\* that starts after the first one ended.
C19_Witness ==
  /\ Len(LastFlushSegments) >= 2
  /\ LastFlushSegments[1].endTime > LastFlushSegments[1].startTime
  /\ LastFlushSegments[2].startTime > LastFlushSegments[1].endTime

\* C20: every segment a MicroSummary lists in segmentIds lies inside the
\* micro-summary's time span [startTime, endTime].
C20_MicroCoversItsSegments ==
  \A i \in 1..Len(microSummaries) :
    \A k \in 1..Len(microSummaries[i].segmentIds) :
      LET seg == segments[microSummaries[i].segmentIds[k]]
      IN /\ microSummaries[i].startTime <= seg.startTime
         /\ seg.endTime <= microSummaries[i].endTime

\* A micro-summary of two segments that ends after it starts.
C20_Witness ==
  \E i \in 1..Len(microSummaries) :
    /\ Len(microSummaries[i].segmentIds) >= 2
    /\ microSummaries[i].endTime > microSummaries[i].startTime
    /\ segments[microSummaries[i].segmentIds[2]].startTime
         > segments[microSummaries[i].segmentIds[1]].endTime

\* ------------------------------------------------------- layer ownership

\* A call of one of the Ingestor's exported operations, or its flush timer.
IngestorOperation ==
  \/ \E sessionId \in Sessions : startIngestion(sessionId)
  \/ stopIngestion
  \/ \E msg \in IngestMessages \cup SummaryMessages : ingestEvent(msg)
  \/ flushToSegments

\* The new table holds the rows of the old one, changed in project at most.
SameExceptProject(old, new) ==
  /\ Len(new) = Len(old)
  /\ \A i \in 1..Len(old) : new[i] = [old[i] EXCEPT !.project = new[i].project]

\* C21: an Ingestor operation writes no micro, session or daily summary and
\* no deep-dive cache entry; every other step (a Summarizer operation, or the
\* return of one of its completion calls) leaves the RawEvents alone and
\* changes nothing of the ActivitySegments but the project of existing ones.
C21_LayerOwnership ==
  [][IF IngestorOperation
     THEN UNCHANGED summaryStore
     ELSE rawEvents' = rawEvents /\ SameExceptProject(segments, segments')]_vars

\* The Summarizer has written a micro, a session and a daily summary and has
\* backfilled the model's project onto a segment the Ingestor created.
C21_Witness ==
  /\ rawEvents # <<>>
  /\ microSummaries # <<>>
  /\ sessionSummaries # <<>>
  /\ dailySummaries # {}
  /\ \E i \in 1..Len(segments) : segments[i].project = "focusd"

\* -------------------------------------------------- the deep-dive cache

\* C22 as stated: a cached analysis is never evicted or recomputed: every
\* step keeps each cache entry as it is, so every later call with the key
\* returns that analysis.
C22_NeverRecomputed ==
  [][\A key \in DOMAIN deepDiveCache :
       /\ key \in DOMAIN deepDiveCache'
       /\ deepDiveCache'[key] = deepDiveCache[key]]_vars

\* generateDeepDive(start, end) finds nothing in the cache and no RawEvent
\* in the range.
NothingToAnalyse(start, end) ==
  /\ CacheKey(start, end) \notin DOMAIN deepDiveCache
  /\ \A i \in 1..Len(rawEvents) :
       rawEvents[i].timestamp < start \/ rawEvents[i].timestamp > end

\* generateDeepDive(start, end) returns the message at once.
DeepDiveAnswers(start, end, analysis) ==
  /\ tasks' = tasks
  /\ Last(lastDeepDive'[CacheKey(start, end)].returned).analysis = analysis

\* C23 as stated: with no RawEvent in the range and the key not cached,
\* generateDeepDive returns the 'no events' message and makes no call.
C23_Original ==
  [][\A range \in DeepDiveRanges :
       (NothingToAnalyse(range[1], range[2]) /\ generateDeepDive(range[1], range[2])) =>
         DeepDiveAnswers(range[1], range[2], "No events recorded for this time range.")]_vars

\* C23 amended: with an LLM client, no RawEvent in the range and the key not
\* cached, generateDeepDive returns the 'no events' message and makes no
\* completion call; without a client it returns the 'LLM not configured'
\* message, also without a call.
C23_NoEventsNoCall ==
  [][\A range \in DeepDiveRanges :
       (NothingToAnalyse(range[1], range[2]) /\ generateDeepDive(range[1], range[2])) =>
         DeepDiveAnswers(range[1], range[2],
                         IF llm THEN "No events recorded for this time range."
                         ELSE "LLM not configured. Cannot generate deep dive.")]_vars

\* A call found events outside its range only and answered 'no events'.
C23_Witness ==
  \E key \in DOMAIN lastDeepDive :
    /\ lastDeepDive[key].returned # <<>>
    /\ lastDeepDive[key].returned[1].from = "noevents"
    /\ lastDeepDive[key].calls = 0
    /\ rawEvents # <<>>

\* ------------------------------------- properties of the on-demand summary

\* A step of generateOnDemandSummary: the call itself, or the return of the
\* completion call it is suspended at (its forced flush's or its overview's).
OnDemandStep ==
  \/ generateOnDemandSummary
  \/ \E i \in 1..Len(tasks), response \in Responses :
       tasks[i].caller = "ondemand" /\ CompletionReturns(i, response)

\* The step of generateOnDemandSummary at which its forced flush returns.
OnDemandFlushReturns ==
  \E i \in 1..Len(tasks), response \in Responses :
    /\ tasks[i].caller = "ondemand"
    /\ tasks[i].kind = "micro"
    /\ CompletionReturns(i, response)

\* C24: generateOnDemandSummary persists no SessionSummary and leaves
\* lastSessionSummaryTime unchanged, whether or not its completion call
\* succeeds; the only row it may add is the MicroSummary of its forced
\* flush, and the only change to a segment is that flush's project backfill.
C24_OnDemandPersistsNoSession ==
  [][OnDemandStep =>
       /\ UNCHANGED <<sessionSummaries, lastSessionSummaryTime, dailySummaries,
                      deepDiveCache, rawEvents>>
       /\ SameExceptProject(segments, segments')
       /\ \/ microSummaries' = microSummaries
          \/ /\ OnDemandFlushReturns
             /\ Len(microSummaries') = Len(microSummaries) + 1
             /\ SubSeq(microSummaries', 1, Len(microSummaries)) = microSummaries
       /\ (segments' # segments => OnDemandFlushReturns)]_vars

\* A call that found two MicroSummaries, one of them written by its own
\* forced flush, made its overview call and returned the overview.
C24_Witness ==
  /\ lastOnDemand.finished
  /\ Len(lastOnDemand.seen) = 2
  /\ lastOnDemand.flushCalls = 1
  /\ lastOnDemand.ownCalls = 1
  /\ lastOnDemand.result = "wrote code"
  /\ sessionSummaries = <<>>

\* The overview call of generateOnDemandSummary throws or returns output
\* that has no summary.
OverviewFails ==
  \E i \in 1..Len(tasks), response \in Responses :
    /\ tasks[i].caller = "ondemand"
    /\ tasks[i].kind = "overview"
    /\ response.kind # "ok"
    /\ CompletionReturns(i, response)

\* C25: generateOnDemandSummary always returns a text: 'no activity' when
\* the day has no MicroSummary, and with several MicroSummaries the summary
\* of the most recent one when there is no LLM client or when its overview
\* call throws or returns output that cannot be parsed.
C25_OnDemandFallsBack ==
  /\ [](lastOnDemand.finished =>
          /\ lastOnDemand.result # None
          /\ lastOnDemand.seen = <<>> => lastOnDemand.result = "No activity recorded yet."
          /\ (Len(lastOnDemand.seen) >= 2 /\ lastOnDemand.ownCalls = 0) =>
               lastOnDemand.result = microSummaries[Last(lastOnDemand.seen)].summary)
  /\ [][OverviewFails =>
          /\ lastOnDemand'.finished
          /\ Len(lastOnDemand'.seen) >= 2
          /\ lastOnDemand'.result = microSummaries[Last(lastOnDemand'.seen)].summary]_vars

\* The overview call of a generateOnDemandSummary that found two different
\* MicroSummaries did not succeed: the later one's text was returned.
C25_Witness ==
  /\ lastOnDemand.finished
  /\ Len(lastOnDemand.seen) = 2
  /\ lastOnDemand.ownCalls = 1
  /\ microSummaries[lastOnDemand.seen[1]].summary = "wrote code"
  /\ microSummaries[lastOnDemand.seen[2]].summary = "No summary available"
  /\ lastOnDemand.result = "No summary available"

\* ------------------------------------------------ the session roll-up

\* The MicroSummary is among the inputs of some SessionSummary.
RolledUp(micro) ==
  \E j \in 1..Len(sessionSummaries) :
    \E k \in 1..Len(sessionSummaries[j].microIds) :
      sessionSummaries[j].microIds[k] = micro.id

\* C26 as stated: when stopPeriodicSummaries has completed and no completion
\* call has failed, every MicroSummary of the session is among the inputs of
\* some SessionSummary.
C26_EveryMicroRolledUp ==
  (/\ lastStop.finished
   /\ lastStop.ready
   /\ ~completionFailed
   /\ activeSessionId = None
   /\ tasks = <<>>) =>
    \A i \in 1..Len(microSummaries) :
      microSummaries[i].sessionId = lastStop.sessionId => RolledUp(microSummaries[i])

\* ------------------------------------------------ properties of the Classifier

\* The rule's keyword is among the words and no earlier rule's keyword is.
FirstKeywordIn(k, words) ==
  /\ \E i \in 1..Len(words) : words[i] = APP_RULES[k].keyword
  /\ \A j \in 1..(k - 1) : \A i \in 1..Len(words) : words[i] # APP_RULES[j].keyword

ClassifiedAs(k) ==
  parsed = [appName |-> <<APP_RULES[k].name>>, category |-> APP_RULES[k].category]

\* C27 as stated: a text that contains a rule's keyword anywhere, and no
\* keyword of an earlier rule, classifies to that rule, whatever its shape.
C27_Original ==
  \A k \in 1..Len(APP_RULES) : FirstKeywordIn(k, scene.fields) => ClassifiedAs(k)

\* C27 amended: a text classifies to the first rule whose keyword stands
\* in the part of the text that is scanned: the app field and the details
\* field of a pipe-separated text (its first and third field), the app
\* field and everything after the action field of a dash-separated text,
\* the whole of a free text.
C27_ClassifiesScannedKeyword ==
  \A k \in 1..Len(APP_RULES) : FirstKeywordIn(k, ScannedWords(scene)) => ClassifiedAs(k)

\* A pipe-separated text with an earlier rule's keyword in its action field
\* and a later rule's keyword in its details field went to the later rule.
C27_Witness ==
  /\ scene.shape = "pipe"
  /\ Len(scene.fields) = 3
  /\ scene.fields[2] = "chrome"
  /\ scene.fields[3] = "slack"
  /\ ClassifiedAs(2)

\* ------------------------------------------------ the start of the Ingestor

\* C28 as stated: from any state, startIngestion leaves the buffer empty,
\* both counters zero, the given session id active and exactly one flush
\* timer armed.
C28_StartIsFresh ==
  [][\A sessionId \in Sessions :
       startIngestion(sessionId) =>
         /\ buffer' = <<>>
         /\ totalIngested' = 0
         /\ totalFlushed' = 0
         /\ ingestSessionId' = sessionId
         /\ flushTimer'
         /\ liveFlushTimers' = 1]_vars

\* ------------------------------------------ the project of a micro-summary

\* The completion call of a generateMicroSummary returns with the project.
MicroReturnsWith(i, project) ==
  /\ tasks[i].kind = "micro"
  /\ \E response \in ProjectResponses :
       response.project = project /\ CompletionReturns(i, response)

\* The name is written to the new MicroSummary and to the segments the call
\* summarized, and to no other segment.
ProjectWritten(i, name) ==
  /\ Last(microSummaries').project = name
  /\ \A s \in 1..Len(segments) :
       segments'[s] = IF s \in IdSet(tasks[i].ids)
                      THEN [segments[s] EXCEPT !.project = name] ELSE segments[s]

NoProjectWritten ==
  /\ Last(microSummaries').project = None
  /\ segments' = segments

ProductivityLabels == {"productive", "neutral", "distracted"}

\* C30 as stated: every persisted MicroSummary has a productivityLabel of
\* the enumeration.
C30_LabelInClosedSet ==
  \A m \in 1..Len(microSummaries) : microSummaries[m].productivityLabel \in ProductivityLabels

\* ------------------------------------------------ the daily summary

\* A generateDailySummary call suspends at its completion call in this step.
DailyCallIssued ==
  /\ Len(tasks') = Len(tasks) + 1
  /\ Last(tasks').kind = "daily"

\* The completion call of a generateDailySummary returns in this step.
DailyCallReturns ==
  \E i \in 1..Len(tasks), response \in Responses :
    tasks[i].kind = "daily" /\ CompletionReturns(i, response)

\* C31: the input of a daily summary is the date's SessionSummaries, all of
\* them, when there is one, and the day's MicroSummaries only when there is
\* none; a call writes at most one DailySummary, and the store holds one
\* row per date.
C31_DailyInputs ==
  /\ [](\A d1, d2 \in dailySummaries : d1.date = d2.date => d1 = d2)
  /\ [][/\ DailyCallIssued =>
             LET sessions == getSessionSummaries(sessionSummaries, Last(tasks').date)
                 micros == getMicroSummaries(microSummaries, DayStart,
                                             DayStart + SecondsPerDay)
             IN IF Len(sessions) > 0
                THEN Last(tasks').source = "sessions" /\ Last(tasks').ids = Ids(sessions)
                ELSE Last(tasks').source = "micros" /\ Last(tasks').ids = Ids(micros)
        /\ DailyCallReturns =>
             /\ Cardinality(dailySummaries') <= Cardinality(dailySummaries) + 1
             /\ \A d \in dailySummaries' \ dailySummaries :
                  \E i \in 1..Len(tasks) :
                    /\ tasks[i].kind = "daily"
                    /\ d.date = tasks[i].date
                    /\ d.source = tasks[i].source
                    /\ d.inputIds = tasks[i].ids]_vars

\* The day's DailySummary was built from its SessionSummary although the
\* day has MicroSummaries too.
C31_Witness ==
  /\ microSummaries # <<>>
  /\ \E d \in dailySummaries :
       /\ d.date = Today
       /\ d.source = "sessions"
       /\ d.inputIds = Ids(getSessionSummaries(sessionSummaries, Today))

\* ------------------------------------------------ the deep-dive prompt

\* The positions of the range whose event carries text, and their number.
TextCarrying ==
  {i \in 1..Len(promptEvents) : promptEvents[i].summaryText \notin {None, NoText}}

\* C32: the prompt lists the first min(n, 50) text-carrying events of the
\* range, in range order, where n is the number of text-carrying events in
\* range; it has the note 'and n - 50 more events' exactly when n > 50.
C32_PromptListsFirstFifty ==
  promptEvents # <<>> =>
    LET n == Cardinality(TextCarrying)
    IN /\ Len(prompt.events) = IF n < 50 THEN n ELSE 50
       /\ \A k \in 1..Len(prompt.events) :
            \E i \in TextCarrying :
              /\ Cardinality({j \in TextCarrying : j <= i}) = k
              /\ prompt.events[k].time = promptEvents[i].timestamp
              /\ prompt.events[k].text = promptEvents[i].summaryText
       /\ prompt.overflow # <<>> <=> n > 50
       /\ n > 50 => prompt.overflow = <<n - 50>>

\* A range of 53 events, one of the first fifty without text: 52 carry
\* text, 50 are listed, the note says 2 more.
C32_Witness ==
  /\ Len(promptEvents) = 53
  /\ \E i \in 1..50 : promptEvents[i].summaryText \in {None, NoText}
  /\ Len(prompt.events) = 50
  /\ prompt.events[50].time = 51
  /\ prompt.overflow = <<2>>

\* ------------------------------------------------ inferAction

\* The k-th pattern of inferAction matches the joined texts of the latest call.
ActionKeywordOccurs(k) ==
  LET combined == Joined(actionTexts)
  IN \/ \E i \in 1..Len(combined) : combined[i] \in ActionRules[k].words
     \/ \E i \in 1..(Len(combined) - 1) :
          <<combined[i], combined[i + 1]>> \in ActionRules[k].pairs

\* inferAction returned the first tag whose keyword occurs, and working
\* when none occurs.
FirstOccurringTag ==
  /\ \A k \in 1..Len(ActionRules) :
       ActionKeywordOccurs(k) /\ (\A j \in 1..(k - 1) : ~ActionKeywordOccurs(j))
         => inferred = ActionRules[k].tag
  /\ (\A k \in 1..Len(ActionRules) : ~ActionKeywordOccurs(k)) => inferred = "working"

\* C33 as stated: inferAction returns the first tag of the priority list
\* whose keyword occurs in the joined scene texts, and working when none
\* occurs, an empty list of texts included.
C33_Original ==
  inferred # NotInferred => FirstOccurringTag

\* C33: for a list of at least one scene text inferAction returns the first
\* tag of the priority list whose keyword occurs in the joined texts, and
\* working when none occurs; for an empty list it returns unknown.
C33_FirstTagOrUnknown ==
  inferred # NotInferred =>
    IF Len(actionTexts) = 0 THEN inferred = "unknown" ELSE FirstOccurringTag

\* Keywords of two tags occur, one of them across two texts, and the
\* earlier tag of the list is returned.
C33_Witness ==
  /\ actionTexts = << <<"replying", "editing">>, <<"code">> >>
  /\ ActionKeywordOccurs(1) /\ ActionKeywordOccurs(3) /\ ActionKeywordOccurs(9)
  /\ inferred = "coding"

\* ------------------------------------- properties of overlapping generations

SegmentIdsOf(micro) == {micro.segmentIds[k] : k \in 1..Len(micro.segmentIds)}

\* C34: no segment id is among the segmentIds of two different persisted
\* MicroSummaries.
C34_SegmentSummarizedOnce ==
  \A i, j \in 1..Len(microSummaries) :
    i # j => SegmentIdsOf(microSummaries[i]) \cap SegmentIdsOf(microSummaries[j]) = {}

\* C35: while a session runs, lastMicroTime and lastSessionSummaryTime
\* never decrease.
C35_WatermarksMonotone ==
  [][activeSessionId # None /\ activeSessionId' = activeSessionId =>
       /\ lastMicroTime' >= lastMicroTime
       /\ lastSessionSummaryTime' >= lastSessionSummaryTime]_vars

\* C36: every persisted MicroSummary carries the session id of its segments
\* and every persisted SessionSummary that of its MicroSummaries, and none
\* of them carries no session id.
C36_SummariesCarrySessionId ==
  /\ \A i \in 1..Len(microSummaries) :
       /\ microSummaries[i].sessionId # None
       /\ \A id \in SegmentIdsOf(microSummaries[i]) :
            segments[id].sessionId = microSummaries[i].sessionId
  /\ \A i \in 1..Len(sessionSummaries) :
       /\ sessionSummaries[i].sessionId # None
       /\ \A k \in 1..Len(sessionSummaries[i].microIds) :
            microSummaries[sessionSummaries[i].microIds[k]].sessionId
              = sessionSummaries[i].sessionId

MicroIdsOf(session) == {session.microIds[k] : k \in 1..Len(session.microIds)}

\* C38: no MicroSummary is an input of two different persisted
\* SessionSummaries.
C38_MicroRolledUpOnce ==
  \A i, j \in 1..Len(sessionSummaries) :
    i # j => MicroIdsOf(sessionSummaries[i]) \cap MicroIdsOf(sessionSummaries[j]) = {}

\* ------------------------------------------------ conservation of events

C39_SectionsWithinDay ==
  \A d \in dailySummaries :
    \A i \in 1..Len(d.drillDownSections) :
      /\ d.drillDownSections[i].startTime <= d.drillDownSections[i].endTime
      /\ DayStart <= d.drillDownSections[i].startTime
      /\ d.drillDownSections[i].endTime <= DayStart + SecondsPerDay

====
